---- MODULE Spec2Model ----
(***************************************************************************)
(* Model of the shadow-domain-ledger minting pipeline                       *)
(* (temporal/workflow.go, temporal/shared.go, pkg/domain).                  *)
(*                                                                         *)
(* Strings whose contents the code inspects (token ids, domain names, NFT  *)
(* metadata) are sequences of byte values; zone names, which the code only *)
(* uses as map keys, are TLA+ strings.                                     *)
(*                                                                         *)
(* The module holds several specifications over one set of variables:      *)
(*   Spec        concurrent LookupOrCreateZoneCollectionActivity calls     *)
(*   SpecSeq     the same calls, one at a time                             *)
(*   SpecSearch  one searchForDomainInCollection call, page by page        *)
(*   SpecRun     two IngestFileWorkflow runs over one log                  *)
(*   SpecRunFair the same runs when every attempt ends                     *)
(*   SpecParse   ParseAndFilterEventsActivity and the grouping by zone     *)
(*   SpecDomain  one call of an operation of pkg/domain                    *)
(*   SpecSubscribe  one SubscribeToTopicActivity call and its callback     *)
(***************************************************************************)
EXTENDS Integers, Sequences, FiniteSets, TLC

(***************************************************************************)
(* Bounds of the model.                                                    *)
(***************************************************************************)
MaxCalls == 3

(***************************************************************************)
(* Byte strings.                                                           *)
(***************************************************************************)
Min(S) == CHOOSE x \in S : \A y \in S : x <= y
Max(S) == CHOOSE x \in S : \A y \in S : x >= y

\* unicode.IsSpace restricted to single bytes: \t \n \v \f \r and space.
IsSpace(c) == c \in {9, 10, 11, 12, 13, 32}

IsDigit(c) == c \in 48..57

\* strings.TrimSpace
TrimSpace(s) ==
    LET keep == {i \in 1..Len(s) : ~IsSpace(s[i])}
    IN  IF keep = {} THEN <<>> ELSE SubSeq(s, Min(keep), Max(keep))

\* strings.Split(s, sep) for a one-byte separator
RECURSIVE Split(_, _)
Split(s, sep) ==
    LET at == {i \in 1..Len(s) : s[i] = sep}
    IN  IF at = {} THEN <<s>>
        ELSE <<SubSeq(s, 1, Min(at) - 1)>> \o Split(SubSeq(s, Min(at) + 1, Len(s)), sep)

\* strings.SplitN(s, sep, 2)[0]
BeforeFirst(s, sep) ==
    LET at == {i \in 1..Len(s) : s[i] = sep}
    IN  IF at = {} THEN s ELSE SubSeq(s, 1, Min(at) - 1)

\* strconv.ParseUint(s, 10, 64) succeeds: a non-empty run of decimal digits
\* (at most 19 digits always fit 64 bits; 20 digits and more are taken to
\* overflow, as every id of the model is far shorter).
ParseUintOk(s) == Len(s) \in 1..19 /\ \A i \in 1..Len(s) : IsDigit(s[i])

\* strconv.Itoa for n >= 0
RECURSIVE Itoa(_)
Itoa(n) == IF n < 10 THEN <<48 + n>> ELSE Itoa(n \div 10) \o <<48 + (n % 10)>>

(***************************************************************************)
(* Token ids.                                                              *)
(***************************************************************************)
\* tokenIDFromString(s) returns no error
tokenIDFromStringOk(s) ==
    LET base  == TrimSpace(s)
        parts == Split(BeforeFirst(base, 45), 46)
    IN  /\ base # <<>>
        /\ Len(parts) = 3
        /\ \A i \in 1..3 : ParseUintOk(parts[i])

\* validateTokenExists: only the format is checked
validateTokenExists(tokenID) == tokenIDFromStringOk(tokenID)

\* receipt.TokenID.String() of the num-th token the ledger creates: "0.0.<num>"
TokenIDString(num) == <<48, 46, 48, 46>> \o Itoa(num)

(***************************************************************************)
(* pkg/domain: NormalizeString, Label, DomainName.                         *)
(***************************************************************************)
LABEL_MAX_LEN == 63
LABEL_MIN_LEN == 1
DOMAIN_MAX_LEN == 253
DOMAIN_MIN_LEN == 1

\* strings.ToLower on ASCII bytes
ToLower(s) == [i \in 1..Len(s) |-> IF s[i] \in 65..90 THEN s[i] + 32 ELSE s[i]]

\* strings.ReplaceAll(s, old, new) for one-byte old and new
ReplaceAll(s, old, new) == [i \in 1..Len(s) |-> IF s[i] = old THEN new ELSE s[i]]

\* RemoveNewlines, RemoveTabs, RemoveCarriageReturns
RemoveNewlines(s) == ReplaceAll(s, 10, 32)
RemoveTabs(s) == ReplaceAll(s, 9, 32)
RemoveCarriageReturns(s) == ReplaceAll(s, 13, 32)

\* strings.Fields: the maximal runs of non-space bytes
RECURSIVE Fields(_)
Fields(s) ==
    LET word == {i \in 1..Len(s) : ~IsSpace(s[i])}
    IN  IF word = {} THEN <<>>
        ELSE LET from  == Min(word)
                 stops == {i \in from..Len(s) : IsSpace(s[i])}
                 to    == IF stops = {} THEN Len(s) ELSE Min(stops) - 1
             IN  <<SubSeq(s, from, to)>> \o Fields(SubSeq(s, to + 1, Len(s)))

\* strings.Join(parts, sep) for a one-byte separator
RECURSIVE Join(_, _)
Join(parts, sep) ==
    IF Len(parts) = 0 THEN <<>>
    ELSE IF Len(parts) = 1 THEN parts[1]
    ELSE parts[1] \o <<sep>> \o Join(Tail(parts), sep)

\* ReplaceMultipleSpaces
ReplaceMultipleSpaces(s) == Join(Fields(s), 32)

\* RemoveTrailingDot: strings.TrimSuffix(s, ".")
RemoveTrailingDot(s) ==
    IF Len(s) > 0 /\ s[Len(s)] = 46 THEN SubSeq(s, 1, Len(s) - 1) ELSE s

\* Normalize with the white space trimmed before the trailing dot is removed
NormalizeStringTrimFirst(s) ==
    RemoveTrailingDot(TrimSpace(ReplaceMultipleSpaces(
        RemoveCarriageReturns(RemoveTabs(RemoveNewlines(s))))))

\* NormalizeString
NormalizeString(s) ==
    TrimSpace(RemoveTrailingDot(ReplaceMultipleSpaces(
        RemoveCarriageReturns(RemoveTabs(RemoveNewlines(s))))))

\* strings.Trim(s, ".")
TrimDots(s) ==
    LET keep == {i \in 1..Len(s) : s[i] # 46}
    IN  IF keep = {} THEN <<>> ELSE SubSeq(s, Min(keep), Max(keep))

\* strings.HasPrefix
HasPrefix(s, prefix) ==
    Len(s) >= Len(prefix) /\ SubSeq(s, 1, Len(prefix)) = prefix

\* "xn--"
ACEPrefix == <<120, 110, 45, 45>>

\* idna.Registration.ToUnicode(label) returns no error. Punycode decoding
\* and the IDNA2008 tables are not modelled: the A-labels taken to convert
\* are listed ("xn--bcher-kva"), every other xn-- label is taken to fail.
ValidALabels == {<<120, 110, 45, 45, 98, 99, 104, 101, 114, 45, 107, 118, 97>>}

IDNAToUnicodeOk(label) == label \in ValidALabels

\* findInvalidLabelCharacters returns "": ASCII letters, digits and '-' only
NoInvalidLabelCharacters(label) ==
    \A i \in 1..Len(label) :
        label[i] \in (65..90) \cup (97..122) \cup (48..57) \cup {45}

\* Label.Validate with the double hyphen refused wherever it stands
LabelValidateAnyDoubleDash(t) ==
    IF Len(t) > LABEL_MAX_LEN \/ Len(t) < LABEL_MIN_LEN
        THEN "ErrInvalidLabelLength"
    ELSE IF t[1] = 45 \/ t[Len(t)] = 45
        THEN "ErrInvalidLabelDash"
    ELSE IF /\ Len(t) > 3 /\ ~HasPrefix(t, ACEPrefix)
            /\ \E i \in 1..(Len(t) - 1) : SubSeq(t, i, i + 1) = <<45, 45>>
        THEN "ErrInvalidLabelDoubleDash"
    ELSE IF HasPrefix(t, ACEPrefix) /\ ~IDNAToUnicodeOk(t)
        THEN "ErrInvalidLabelIDN"
    ELSE IF ~NoInvalidLabelCharacters(t)
        THEN "ErrLabelContainsInvalidCharacter"
    ELSE "nil"

\* Label.Validate: the error returned, or "nil"
LabelValidate(t) ==
    IF Len(t) > LABEL_MAX_LEN \/ Len(t) < LABEL_MIN_LEN
        THEN "ErrInvalidLabelLength"
    ELSE IF t[1] = 45 \/ t[Len(t)] = 45
        THEN "ErrInvalidLabelDash"
    ELSE IF Len(t) > 3 /\ ~HasPrefix(t, ACEPrefix) /\ SubSeq(t, 3, 4) = <<45, 45>>
        THEN "ErrInvalidLabelDoubleDash"
    ELSE IF HasPrefix(t, ACEPrefix) /\ ~IDNAToUnicodeOk(t)
        THEN "ErrInvalidLabelIDN"
    ELSE IF ~NoInvalidLabelCharacters(t)
        THEN "ErrLabelContainsInvalidCharacter"
    ELSE "nil"

\* DomainName.GetLabels
GetLabels(d) == Split(d, 46)

\* DomainName.Validate without the test of the overall length
DomainNameValidateLabelsOnly(d) ==
    LET labels == GetLabels(d)
        bad    == {i \in 1..Len(labels) : LabelValidate(labels[i]) # "nil"}
    IN  IF bad = {} THEN "nil" ELSE LabelValidate(labels[Min(bad)])

\* DomainName.Validate: the error returned, or "nil"
DomainNameValidate(d) ==
    IF Len(d) > DOMAIN_MAX_LEN \/ Len(d) < DOMAIN_MIN_LEN
        THEN "ErrinvalIdDomainNameLength"
    ELSE LET labels == GetLabels(d)
             bad    == {i \in 1..Len(labels) : LabelValidate(labels[i]) # "nil"}
         IN  IF bad = {} THEN "nil" ELSE LabelValidate(labels[Min(bad)])

\* NewDomainName: (domain name, err)
NewDomainName(name) ==
    LET d == TrimDots(NormalizeString(ToLower(name)))
    IN  [name |-> d, err |-> DomainNameValidate(d)]

\* DomainName.Label
DomainLabel(d) == Split(d, 46)[1]

\* the last label for the parent domain
ParentDomainLastLabel(d) == Split(d, 46)[Len(Split(d, 46))]

\* DomainName.ParentDomain
ParentDomain(d) == Join(Tail(Split(d, 46)), 46)

(***************************************************************************)
(* encoding/base64, StdEncoding.                                           *)
(***************************************************************************)
\* the value of an alphabet byte: A-Z, a-z, 0-9, '+', '/'
B64Value(c) ==
    CASE c \in 65..90  -> c - 65
      [] c \in 97..122 -> c - 97 + 26
      [] c \in 48..57  -> c - 48 + 52
      [] c = 43        -> 62
      [] c = 47        -> 63
      [] OTHER         -> -1

\* the alphabet byte of a value in 0..63
B64Char(v) ==
    CASE v < 26 -> 65 + v
      [] v < 52 -> 97 + (v - 26)
      [] v < 62 -> 48 + (v - 52)
      [] v = 62 -> 43
      [] OTHER  -> 47

\* base64.StdEncoding.EncodeToString: what the mirror node serves for the
\* metadata bytes of an NFT
RECURSIVE Base64Encode(_)
Base64Encode(b) ==
    IF Len(b) = 0 THEN <<>>
    ELSE IF Len(b) = 1 THEN
        <<B64Char(b[1] \div 4), B64Char((b[1] % 4) * 16), 61, 61>>
    ELSE IF Len(b) = 2 THEN
        <<B64Char(b[1] \div 4),
          B64Char((b[1] % 4) * 16 + b[2] \div 16),
          B64Char((b[2] % 16) * 4), 61>>
    ELSE
        <<B64Char(b[1] \div 4),
          B64Char((b[1] % 4) * 16 + b[2] \div 16),
          B64Char((b[2] % 16) * 4 + b[3] \div 64),
          B64Char(b[3] % 64)>> \o Base64Encode(SubSeq(b, 4, Len(b)))

\* the input without the '\r' and '\n' bytes the decoder skips
RECURSIVE StripNewlines(_)
StripNewlines(s) ==
    IF s = <<>> THEN <<>>
    ELSE IF s[1] \in {10, 13} THEN StripNewlines(Tail(s))
    ELSE <<s[1]>> \o StripNewlines(Tail(s))

\* one quantum of four bytes, the last one of the input or not
Base64QuantumOk(q, last) ==
    /\ B64Value(q[1]) >= 0 /\ B64Value(q[2]) >= 0
    /\ \/ B64Value(q[3]) >= 0 /\ B64Value(q[4]) >= 0
       \/ last /\ B64Value(q[3]) >= 0 /\ q[4] = 61
       \/ last /\ q[3] = 61 /\ q[4] = 61

Base64QuantumBytes(q) ==
    LET v1 == B64Value(q[1])
        v2 == B64Value(q[2])
        v3 == B64Value(q[3])
        v4 == B64Value(q[4])
    IN  IF q[3] = 61 THEN <<v1 * 4 + v2 \div 16>>
        ELSE IF q[4] = 61 THEN <<v1 * 4 + v2 \div 16, (v2 % 16) * 16 + v3 \div 4>>
        ELSE <<v1 * 4 + v2 \div 16, (v2 % 16) * 16 + v3 \div 4, (v3 % 4) * 64 + v4>>

RECURSIVE Base64DecodeQuanta(_)
Base64DecodeQuanta(s) ==
    IF Len(s) = 0 THEN [err |-> FALSE, bytes |-> <<>>]
    ELSE IF Len(s) < 4 THEN [err |-> TRUE, bytes |-> <<>>]
    ELSE LET q    == SubSeq(s, 1, 4)
             rest == Base64DecodeQuanta(SubSeq(s, 5, Len(s)))
         IN  IF ~Base64QuantumOk(q, Len(s) = 4) \/ rest.err
             THEN [err |-> TRUE, bytes |-> <<>>]
             ELSE [err |-> FALSE, bytes |-> Base64QuantumBytes(q) \o rest.bytes]

\* base64.StdEncoding.DecodeString: (bytes, err)
Base64Decode(s) == Base64DecodeQuanta(StripNewlines(s))

(***************************************************************************)
(* searchForDomainInCollection: the duplicate search, one page at a time.  *)
(***************************************************************************)
maxPagesToCheck == 50

\* MirrorNodeNFT, reduced to serial number and metadata
NFT(serial, metadata) == [SerialNumber |-> serial, Metadata |-> metadata]

\* MirrorNodeNFT{}
NoNFT == NFT(0, <<>>)

\* MetadataMatchesDecodedOnly: only the decoded metadata is compared
MetadataMatchesDecodedOnly(metadata, expectedLabel) ==
    LET actualMetadata  == TrimSpace(metadata)
        decoded         == Base64Decode(actualMetadata)
        decodedMetadata == IF ~decoded.err THEN decoded.bytes ELSE actualMetadata
    IN  decodedMetadata = expectedLabel

\* workflow.go 533-546: the item's metadata, trimmed, equals the label as it
\* is or after base64 decoding
MetadataMatches(metadata, expectedLabel) ==
    LET actualMetadata  == TrimSpace(metadata)
        decoded         == Base64Decode(actualMetadata)
        decodedMetadata == IF ~decoded.err THEN decoded.bytes ELSE actualMetadata
    IN  decodedMetadata = expectedLabel \/ actualMetadata = expectedLabel

\* A response to client.Get(nextURL):
\*   transportErr   the request failed
\*   status404, status500   a status other than 200
\*   badBody        status 200, body not decodable as MirrorNodeNFTsResponse
\*   page           status 200 with nfts and links.next, which is empty
\*                  ("none"), a link url.Parse accepts ("link") or one it
\*                  rejects ("badLink")
Response(kind, nfts, next) == [kind |-> kind, nfts |-> nfts, next |-> next]

\* The state of the loop: nextURL is non-empty (hasNext), pagesChecked, and
\* once the function has returned (done) its results.
SearchState(hasNext, pagesChecked, done, nft, found, err) ==
    [hasNext |-> hasNext, pagesChecked |-> pagesChecked, done |-> done,
     nft |-> nft, found |-> found, err |-> err]

\* workflow.go 502-503
SearchStart == SearchState(TRUE, 0, FALSE, NoNFT, FALSE, FALSE)

\* WithinPageCapInclusive: the cap compared with <=
WithinPageCapInclusive(pagesChecked) == pagesChecked <= maxPagesToCheck

\* workflow.go 505 and 554: pagesChecked < maxPagesToCheck
WithinPageCap(pagesChecked) == pagesChecked < maxPagesToCheck

\* workflow.go 505: for nextURL != "" && pagesChecked < maxPagesToCheck
LoopContinues(hasNext, pagesChecked) == hasNext /\ WithinPageCap(pagesChecked)

SearchReturn(nft, found, err, st) ==
    SearchState(st.hasNext, st.pagesChecked, TRUE, nft, found, err)

\* workflow.go 552-563 and the loop test that follows: after a page without
\* a match, pagesChecked is incremented; a link that does not parse breaks
\* out of the loop, a link sets nextURL, anything else clears it; the
\* function returns "not found" unless the loop goes on.
SearchNextPage(st, next) ==
    LET checked == st.pagesChecked + 1
        follow  == next # "none" /\ WithinPageCap(checked)
        after   == [st EXCEPT !.pagesChecked = checked, !.hasNext = follow]
    IN  IF follow /\ next = "badLink"
        THEN SearchReturn(NoNFT, FALSE, FALSE, [after EXCEPT !.hasNext = TRUE])
        ELSE IF LoopContinues(follow, checked)
        THEN after
        ELSE SearchReturn(NoNFT, FALSE, FALSE, after)

\* LastHit: the last matching item of the page
LastHit(hits) == Max(hits)

\* workflow.go 532-549: the range loop returns at the first matching item
FirstHit(hits) == Min(hits)

\* OnStatusNotFoundAsError: a 404 reported as an error
OnStatusNotFoundAsError(st) == SearchReturn(NoNFT, FALSE, TRUE, st)

\* workflow.go 514-518: return MirrorNodeNFT{}, false, nil
OnStatusNotFound(st) == SearchReturn(NoNFT, FALSE, FALSE, st)

\* workflow.go 506-564: one iteration of the loop, given the response
SearchStep(st, resp, expectedLabel) ==
    LET hits == {i \in 1..Len(resp.nfts) :
                    MetadataMatches(resp.nfts[i].Metadata, expectedLabel)}
    IN  CASE resp.kind = "transportErr" -> SearchReturn(NoNFT, FALSE, TRUE, st)
          [] resp.kind = "status404"    -> OnStatusNotFound(st)
          [] resp.kind = "status500"    -> SearchReturn(NoNFT, FALSE, TRUE, st)
          [] resp.kind = "badBody"      -> SearchReturn(NoNFT, FALSE, TRUE, st)
          [] resp.kind = "page" ->
                IF hits # {}
                THEN SearchReturn(resp.nfts[FirstHit(hits)], TRUE, FALSE, st)
                ELSE SearchNextPage(st, resp.next)

(***************************************************************************)
(* The zone registry (shared.go) and the ledger's collections.             *)
(***************************************************************************)
Zones == {"app", "build"}

\* the activities that may run at the same time (two workflow runs)
Procs == {"p1", "p2"}

\* ZoneCollectionInfo, reduced to the fields the activities read
Handle(zone, tokenID) == [Zone |-> zone, TokenID |-> tokenID]

\* ZoneCollectionInfo{}
NoHandle == Handle("", <<>>)

\* make(map[string]ZoneCollectionInfo)
EmptyCollections == [z \in {} |-> NoHandle]

\* The contents of zone_collections.json: no file, bytes that do not decode
\* as a ZoneRegistry, or a registry.
FileAbsent == [kind |-> "absent", collections |-> EmptyCollections]
FileCorrupt == [kind |-> "corrupt", collections |-> EmptyCollections]
FileRegistry(collections) == [kind |-> "registry", collections |-> collections]

\* Token ids a registry file written by an earlier deployment may hold:
\* "0.0.7", " 0.0.8-ab" (surrounding space, checksum suffix), "0.0" (stale)
InitTokenIDs == {<<48, 46, 48, 46, 55>>,
                 <<32, 48, 46, 48, 46, 56, 45, 97, 98>>,
                 <<48, 46, 48>>}

InitFiles ==
    {FileAbsent, FileCorrupt} \cup
    {FileRegistry([z \in D |-> Handle(z, ids[z])]) :
        D \in SUBSET Zones, ids \in [Zones -> InitTokenIDs]}

(***************************************************************************)
(* encoding/json, as far as ParseAndFilterEventsActivity uses it: the      *)
(* syntax check of the whole input, then the decoding into RegistryEvent.  *)
(* Strings without escape sequences and integers without fraction or       *)
(* exponent; no line of the model holds a backslash or a decimal point.    *)
(***************************************************************************)
JString(b) == [t |-> "string", s |-> b, m |-> <<>>]
JObject(members) == [t |-> "object", s |-> <<>>, m |-> members]
JArray(elements) == [t |-> "array", s |-> <<>>, m |-> elements]
JNumber == [t |-> "number", s |-> <<>>, m |-> <<>>]
JBool == [t |-> "bool", s |-> <<>>, m |-> <<>>]
JNull == [t |-> "null", s |-> <<>>, m |-> <<>>]

\* a scan that read value v and stopped before index i, or failed
Scanned(v, i) == [ok |-> TRUE, v |-> v, i |-> i]
ScanFail == [ok |-> FALSE, v |-> JNull, i |-> 0]

\* JSON white space: space, \t, \r, \n
IsJSONSpace(c) == c \in {9, 10, 13, 32}

\* the first index from i on that holds no white space; Len(s) + 1 if none
SkipSpace(s, i) == Min({j \in i..Len(s) : ~IsJSONSpace(s[j])} \cup {Len(s) + 1})

\* a string literal whose opening quote is s[i]
ScanString(s, i) ==
    LET closing == {j \in (i + 1)..Len(s) : s[j] = 34}
    IN  IF closing = {} THEN ScanFail
        ELSE LET j == Min(closing)
                 body == SubSeq(s, i + 1, j - 1)
             IN  IF \E k \in 1..Len(body) : body[k] < 32 \/ body[k] = 92
                 THEN ScanFail
                 ELSE Scanned(JString(body), j + 1)

\* an integer literal that starts at s[i]
ScanNumber(s, i) ==
    LET start == IF s[i] = 45 THEN i + 1 ELSE i
        stop == Min({j \in start..Len(s) : ~IsDigit(s[j])} \cup {Len(s) + 1})
    IN  IF stop = start \/ (s[start] = 48 /\ stop > start + 1)
        THEN ScanFail
        ELSE Scanned(JNumber, stop)

\* the literal word (null, true, false) at s[i]
ScanLiteral(s, i, word, v) ==
    IF i + Len(word) - 1 <= Len(s) /\ SubSeq(s, i, i + Len(word) - 1) = word
    THEN Scanned(v, i + Len(word))
    ELSE ScanFail

RECURSIVE ScanValue(_, _)
RECURSIVE ScanMembers(_, _, _)
RECURSIVE ScanElements(_, _, _)

\* the JSON value that starts at or after s[i0]
ScanValue(s, i0) ==
    LET i == SkipSpace(s, i0)
    IN  IF i > Len(s) THEN ScanFail
        ELSE CASE s[i] = 34 -> ScanString(s, i)
               [] s[i] = 123 ->
                    LET j == SkipSpace(s, i + 1)
                    IN  IF j <= Len(s) /\ s[j] = 125
                        THEN Scanned(JObject(<<>>), j + 1)
                        ELSE ScanMembers(s, j, <<>>)
               [] s[i] = 91 ->
                    LET j == SkipSpace(s, i + 1)
                    IN  IF j <= Len(s) /\ s[j] = 93
                        THEN Scanned(JArray(<<>>), j + 1)
                        ELSE ScanElements(s, j, <<>>)
               [] s[i] = 45 \/ IsDigit(s[i]) -> ScanNumber(s, i)
               [] s[i] = 110 -> ScanLiteral(s, i, <<110, 117, 108, 108>>, JNull)
               [] s[i] = 116 -> ScanLiteral(s, i, <<116, 114, 117, 101>>, JBool)
               [] s[i] = 102 -> ScanLiteral(s, i, <<102, 97, 108, 115, 101>>, JBool)
               [] OTHER -> ScanFail

\* the members of an object from the key at s[i] on, up to the closing brace
ScanMembers(s, i, acc) ==
    IF i > Len(s) \/ s[i] # 34 THEN ScanFail
    ELSE LET key == ScanString(s, i)
             colon == SkipSpace(s, key.i)
         IN  IF ~key.ok \/ colon > Len(s) \/ s[colon] # 58 THEN ScanFail
             ELSE LET val == ScanValue(s, colon + 1)
                      next == SkipSpace(s, val.i)
                      members == Append(acc, [k |-> key.v.s, v |-> val.v])
                  IN  IF ~val.ok \/ next > Len(s) THEN ScanFail
                      ELSE IF s[next] = 125 THEN Scanned(JObject(members), next + 1)
                      ELSE IF s[next] = 44
                           THEN ScanMembers(s, SkipSpace(s, next + 1), members)
                           ELSE ScanFail

\* the elements of an array from the value at s[i] on, up to the closing bracket
ScanElements(s, i, acc) ==
    LET val == ScanValue(s, i)
        next == SkipSpace(s, val.i)
        elements == Append(acc, [k |-> <<>>, v |-> val.v])
    IN  IF ~val.ok \/ next > Len(s) THEN ScanFail
        ELSE IF s[next] = 93 THEN Scanned(JArray(elements), next + 1)
        ELSE IF s[next] = 44 THEN ScanElements(s, next + 1, elements)
        ELSE ScanFail

\* shared.go 9-17: the zero EventData
EventData ==
    [Initiator |-> <<>>, RegistrarID |-> <<>>, Type |-> <<>>, DomainName |-> <<>>,
     Event |-> <<>>, Timestamp |-> <<>>, Zone |-> <<>>]

\* shared.go 10-16: the field a key names through the json tags i, r, t, o,
\* e, s, z; encoding/json matches a key to a tag exactly or, failing that,
\* without regard to case. "" for a key that names no field.
EventDataField(key) ==
    LET tag == ToLower(key)
    IN  CASE tag = <<105>> -> "Initiator"
          [] tag = <<114>> -> "RegistrarID"
          [] tag = <<116>> -> "Type"
          [] tag = <<111>> -> "DomainName"
          [] tag = <<101>> -> "Event"
          [] tag = <<115>> -> "Timestamp"
          [] tag = <<122>> -> "Zone"
          [] OTHER -> ""

\* An Unmarshal result: the value decoded so far and the error to return.
Decoded(event, err) == [event |-> event, err |-> err]

\* encoding/json keeps the first type error and goes on decoding
FirstError(err, new) == IF err = "nil" THEN new ELSE err

\* decoding the members of a JSON object into an EventData: a string sets
\* its field, null leaves it, any other value is a type error; a key that
\* names no field is ignored; of two members for one field the later wins
RECURSIVE DecodeEventData(_, _, _)
DecodeEventData(members, event, err) ==
    IF members = <<>> THEN Decoded(event, err)
    ELSE LET member == Head(members)
             field == EventDataField(member.k)
         IN  IF field = "" \/ member.v.t = "null"
             THEN DecodeEventData(Tail(members), event, err)
             ELSE IF member.v.t = "string"
             THEN DecodeEventData(Tail(members),
                                  [event EXCEPT ![field] = member.v.s], err)
             ELSE DecodeEventData(Tail(members), event,
                                  FirstError(err, "UnmarshalTypeError"))

\* "registry-event"
EventKey == <<34, 114, 101, 103, 105, 115, 116, 114, 121, 45, 101, 118, 101, 110, 116, 34>>

\* shared.go 21: the json tag of RegistryEvent.Event
EventTag == SubSeq(EventKey, 2, Len(EventKey) - 1)

\* decoding the members of the top-level object into a RegistryEvent
RECURSIVE DecodeRegistryEvent(_, _, _)
DecodeRegistryEvent(members, event, err) ==
    IF members = <<>> THEN Decoded(event, err)
    ELSE LET member == Head(members)
         IN  IF ToLower(member.k) # EventTag \/ member.v.t = "null"
             THEN DecodeRegistryEvent(Tail(members), event, err)
             ELSE IF member.v.t = "object"
             THEN LET inner == DecodeEventData(member.v.m, event, err)
                  IN  DecodeRegistryEvent(Tail(members), inner.event, inner.err)
             ELSE DecodeRegistryEvent(Tail(members), event,
                                      FirstError(err, "UnmarshalTypeError"))

\* json.Unmarshal(data, &event) for a RegistryEvent: a syntax error for
\* input that is not one JSON value, before anything is decoded
Unmarshal(data) ==
    LET top == ScanValue(data, 1)
    IN  IF ~top.ok \/ SkipSpace(data, top.i) <= Len(data)
        THEN Decoded(EventData, "SyntaxError")
        ELSE CASE top.v.t = "object" -> DecodeRegistryEvent(top.v.m, EventData, "nil")
               [] top.v.t = "null" -> Decoded(EventData, "nil")
               [] OTHER -> Decoded(EventData, "UnmarshalTypeError")

(***************************************************************************)
(* ParseAndFilterEventsActivity and the grouping by zone.                  *)
(***************************************************************************)
\* workflow.go 280-286: the MintingInfo of a decoded line (RegistrationTime,
\* the wall clock of the parse, is left out)
ParsedMintingInfo(event, jsonString) ==
    [DomainName |-> event.DomainName, RegistrarID |-> event.RegistrarID,
     Zone |-> event.Zone, FullEventJSON |-> jsonString]

\* the prefix test with the key's closing quote left out
HasEventPrefixUnquoted(line) == HasPrefix(line, SubSeq(EventKey, 1, Len(EventKey) - 1))

\* workflow.go 264
HasEventPrefix(line) == HasPrefix(line, EventKey)

\* workflow.go 269
WrapInBraces(line) == <<123>> \o line \o <<125>>

\* an undecodable line ends the activity with the decoding error
OnUnmarshalErrorReturn(err) == [continue |-> FALSE, err |-> err]

\* workflow.go 272-276: an undecodable line is reported and skipped
OnUnmarshalError(err) == [continue |-> TRUE, err |-> "nil"]

\* What the activity returns: ([]MintingInfo, error)
ParseResult(mintingInfos, err) == [mintingInfos |-> mintingInfos, err |-> err]

\* workflow.go 263-289: the range loop over the lines, from the
\* mintingInfos collected so far
RECURSIVE ParseLoop(_, _)
ParseLoop(lines, mintingInfos) ==
    IF lines = <<>> THEN ParseResult(mintingInfos, "nil")
    ELSE LET line == Head(lines)
             jsonString == WrapInBraces(line)
             decoded == Unmarshal(jsonString)
             onError == OnUnmarshalError(decoded.err)
         IN  IF ~HasEventPrefix(line) THEN ParseLoop(Tail(lines), mintingInfos)
             ELSE IF decoded.err # "nil"
             THEN IF onError.continue
                  THEN ParseLoop(Tail(lines), mintingInfos)
                  ELSE ParseResult(<<>>, onError.err)
             ELSE ParseLoop(Tail(lines),
                            Append(mintingInfos,
                                   ParsedMintingInfo(decoded.event, jsonString)))

\* workflow.go 260-290
ParseAndFilterEvents(lines) == ParseLoop(lines, <<>>)

\* the map without its groups
NoGroups == [z \in {} |-> <<>>]

\* zoneGroups[zone] read as Go reads a map: the zero value, a nil slice,
\* for a key the map does not hold
GroupOf(zoneGroups, zone) ==
    IF zone \in DOMAIN zoneGroups THEN zoneGroups[zone] ELSE <<>>

\* the append with the record put in front of the group
PrependToGroup(zoneGroups, info) ==
    [z \in DOMAIN zoneGroups \cup {info.Zone} |->
        IF z = info.Zone THEN <<info>> \o GroupOf(zoneGroups, z) ELSE zoneGroups[z]]

\* workflow.go 49-50: zoneGroups[zone] = append(zoneGroups[zone], info)
AppendToGroup(zoneGroups, info) ==
    [z \in DOMAIN zoneGroups \cup {info.Zone} |->
        IF z = info.Zone THEN Append(GroupOf(zoneGroups, z), info) ELSE zoneGroups[z]]

\* workflow.go 47-51: the grouping loop, from the groups built so far
RECURSIVE GroupByZone(_, _)
GroupByZone(infos, zoneGroups) ==
    IF infos = <<>> THEN zoneGroups
    ELSE GroupByZone(Tail(infos), AppendToGroup(zoneGroups, Head(infos)))

\* The lines of the model's log files.
Quoted(s) == <<34>> \o s \o <<34>>
Member(key, value) == Quoted(key) \o <<58>> \o Quoted(value)

\* "registry-event":{"r":r,"o":o,"e":e,"z":z}
EventLine(o, r, z, e) ==
    EventKey \o <<58, 123>> \o Member(<<114>>, r) \o <<44>> \o Member(<<111>>, o)
        \o <<44>> \o Member(<<101>>, e) \o <<44>> \o Member(<<122>>, z) \o <<125>>

\* create, delete, renew
EventKinds == {<<99, 114, 101, 97, 116, 101>>, <<100, 101, 108, 101, 116, 101>>,
               <<114, 101, 110, 101, 119>>}

\* the event lines: "ab.p" of registrar r1 in zone app, created and deleted;
\* "cd.p" of r2 in zone build, created; "cd.p" of r2 in zone App, renewed
EventLines ==
    {EventLine(<<97, 98, 46, 112>>, <<114, 49>>, <<97, 112, 112>>, <<99, 114, 101, 97, 116, 101>>),
     EventLine(<<97, 98, 46, 112>>, <<114, 49>>, <<97, 112, 112>>, <<100, 101, 108, 101, 116, 101>>),
     EventLine(<<99, 100, 46, 112>>, <<114, 50>>, <<98, 117, 105, 108, 100>>, <<99, 114, 101, 97, 116, 101>>),
     EventLine(<<99, 100, 46, 112>>, <<114, 50>>, <<65, 112, 112>>, <<114, 101, 110, 101, 119>>)}

\* an event without fields: "registry-event":{}
EmptyEventLine == EventKey \o <<58, 123, 125>>

\* an event line cut short: "registry-event":{"o":"ab.p"
TruncatedLine == EventKey \o <<58, 123>> \o Member(<<111>>, <<97, 98, 46, 112>>)

\* a number for the domain name: "registry-event":{"o":5,"z":"app"}
MistypedLine ==
    EventKey \o <<58, 123>> \o Quoted(<<111>>) \o <<58, 53, 44>>
        \o Member(<<122>>, <<97, 112, 112>>) \o <<125>>

\* an event line after a space
IndentedLine ==
    <<32>> \o EventLine(<<97, 98, 46, 112>>, <<114, 49>>, <<97, 112, 112>>,
                        <<99, 114, 101, 97, 116, 101>>)

\* another key that starts alike: "registry-event-x":{"o":"ab.p"}
OtherKeyLine ==
    SubSeq(EventKey, 1, Len(EventKey) - 1) \o <<45, 120, 34, 58, 123>>
        \o Member(<<111>>, <<97, 98, 46, 112>>) \o <<125>>

LogLines ==
    EventLines \cup {EmptyEventLine, TruncatedLine, MistypedLine, IndentedLine, OtherKeyLine}

(***************************************************************************)
(* pkg/domain: DomainName.UnmarshalJSON and the inputs of the model.       *)
(***************************************************************************)
\* part_001 73-81: json.Unmarshal(bytes, &name) into a string, then
\* *d = DomainName(name) with no call of Validate. The result is the
\* (name, err) pair; on an error d is left as it was.
DomainNameUnmarshalJSON(bytes) ==
    LET top == ScanValue(bytes, 1)
    IN  IF ~top.ok \/ SkipSpace(bytes, top.i) <= Len(bytes)
        THEN [name |-> <<>>, err |-> "SyntaxError"]
        ELSE CASE top.v.t = "string" -> [name |-> top.v.s, err |-> "nil"]
               [] top.v.t = "null" -> [name |-> <<>>, err |-> "nil"]
               [] OTHER -> [name |-> <<>>, err |-> "UnmarshalTypeError"]

\* n times the byte c
Repeat(c, n) == [i \in 1..n |-> c]

\* the strings of up to n bytes of an alphabet
StringsUpTo(alphabet, n) == UNION {[1..k -> alphabet] : k \in 0..n}

\* a, B, hyphen, dot, space, newline
NameAlphabet == {97, 66, 45, 46, 32, 10}

\* names of up to four labels of 0, 1, 62, 63 or 64 letters: at the limits
\* of the label length and, with four labels, of the name length
LabelLengths == {0, 1, 62, 63, 64}

LongNames ==
    {Join([i \in 1..k |-> Repeat(97, n[i])], 46) :
        n \in [1..4 -> LabelLengths], k \in 1..4}

\* "EXAMPLE.COM.", "xn--bcher-kva.de", "ab--cd.p", "xn--abc.p"
SampleNames ==
    {<<69, 88, 65, 77, 80, 76, 69, 46, 67, 79, 77, 46>>,
     <<120, 110, 45, 45, 98, 99, 104, 101, 114, 45, 107, 118, 97, 46, 100, 101>>,
     <<97, 98, 45, 45, 99, 100, 46, 112>>,
     <<120, 110, 45, 45, 97, 98, 99, 46, 112>>}

\* a, hyphen, x, n, underscore
LabelAlphabet == {97, 45, 120, 110, 95}

\* "xn--bcher-kva"; 63 and 64 letters; a hyphen and 64 letters
SampleLabels ==
    {<<120, 110, 45, 45, 98, 99, 104, 101, 114, 45, 107, 118, 97>>,
     Repeat(97, 63), Repeat(97, 64), <<45>> \o Repeat(97, 64)}

\* JSON texts: "ab.p", "-x..Q", "", ".", "a.b.c", 123, null, "ab
JSONNames ==
    {<<34, 97, 98, 46, 112, 34>>, <<34, 45, 120, 46, 46, 81, 34>>, <<34, 34>>,
     <<34, 46, 34>>, <<34, 97, 46, 98, 46, 99, 34>>, <<49, 50, 51>>,
     <<110, 117, 108, 108>>, <<34, 97, 98>>}

VARIABLES
    file,           \* zone_collections.json
    ledger,         \* collections created on the ledger, oldest first
    pc,             \* per activity: "idle", "create", "save", "done"
    zoneArg,        \* per activity: its zone argument
    registry,       \* per activity: registry.Collections in memory
    loadErr,        \* per activity: loadZoneRegistry returned an error
    newCollection,  \* per activity: the collection to register, or NoHandle
    saved,          \* per activity: how saveZoneRegistry ended
    ret,            \* per activity: the returned (ZoneCollectionInfo, error)
    calls,          \* activities started so far
    loadedFile,     \* history, per activity: the file as it was when loaded
    lastWriter,     \* history: the activity whose save last changed the file
    recorded        \* history, per zone: the first token id a call created
                    \* and saved for the zone, or <<>>

regVars == <<file, ledger, pc, zoneArg, registry, loadErr, newCollection,
             saved, ret, calls, loadedFile, lastWriter, recorded>>

VARIABLES
    search,         \* the state of the searchForDomainInCollection loop
    expectedLabel,  \* its expectedLabel argument
    fetches,        \* history: pages requested so far
    noMatchYet,     \* history: every response so far was a page without a match
    matchPage,      \* history: number of the first fetch that served a match, or 0
    lastResponse    \* history: the last response

searchVars == <<search, expectedLabel, fetches, noMatchYet, matchPage, lastResponse>>

VARIABLES
    records,        \* mintingInfos: the parsed records of the log file
    provisioned,    \* history, per zone: the collection the provisioning of the run
                    \* in progress returned, NoHandle before
    startFile,      \* history: zone_collections.json when the run in progress started
    run,            \* the number of the workflow run in progress
    wf,             \* the workflow's position: "read", "parse", "zones",
                    \* "provision", "mint", or "returned"
    zonesLeft,      \* keys of zoneGroups the range loop has not visited yet
    curZone,        \* zone of the loop iteration in progress
    zoneCollection, \* the collection provisioning returned for curZone
    domIdx,         \* index in zoneGroups[curZone] of the domain in progress
    attempt,        \* attempt number of the activity in progress
    nfts,           \* per token id: the NFTs minted in the collection, oldest first
    lastMint,       \* history: what the last MintNFTActivity attempt did
    faults,         \* failed transactions, writes and mirror queries so far
    returned,       \* per run: what IngestFileWorkflow returned, or "pending"
    steps           \* history: the activities the run in progress has executed

runVars == <<records, provisioned, startFile, run, wf, zonesLeft, curZone, zoneCollection, domIdx,
             attempt, nfts, lastMint, faults, returned, steps>>

VARIABLES
    lines,          \* the lines ReadFileActivity returned
    mintingInfos,   \* what ParseAndFilterEventsActivity returned
    parseErr,       \* the error it returned, "pending" before it ran
    zoneGroups,     \* the map the grouping loop built
    parsePc         \* "parse", "group", "grouped" or "returned"; "quiet" when unused

parseVars == <<lines, mintingInfos, parseErr, zoneGroups, parsePc>>

VARIABLES
    domOp,          \* the operation called: "new", "json", "label"; "quiet" when unused
    rawName,        \* its argument
    domPc,          \* "call", "made" (a DomainName exists), "failed",
                    \* "validated", "read"
    candidate,      \* the string NewDomainName validated
    dnValue,        \* the DomainName value
    dnErr,          \* the error the operation returned
    dnLabel,        \* what Label() returned
    dnParent        \* what ParentDomain() returned

domVars == <<domOp, rawName, domPc, candidate, dnValue, dnErr, dnLabel, dnParent>>

VARIABLES
    subscription,   \* the TopicSubscriptionInfo argument
    subPc,          \* "call", "subscribed" or "returned"; "quiet" when unused
    streamOpen,     \* the subscription delivers messages
    messages,       \* the slice the callback appends to
    messageCount,   \* the callback's counter
    subResult       \* what the activity returned

subVars == <<subscription, subPc, streamOpen, messages, messageCount, subResult>>

VARIABLES
    topicFile,      \* hcs_topics.json
    topics,         \* the topics the calls created on the ledger, oldest first
    topicCalls,     \* LookupOrCreateTopicActivity calls made so far
    topicRet,       \* what the last call returned: (TopicInfo, error)
    lastTopicCall,  \* history: the last call's name, the file and the topics
                    \* as they were before it
    topicIDs,       \* history, per name: the topic ids calls returned for it
    hcsTopicName,   \* HCSDemoWorkflow's topicName argument
    hcsPc,          \* the workflow's position: "lookup", "send", "subscribe",
                    \* "check" or "returned"; "quiet" when unused
    hcsAttempt,     \* attempt number of the activity in progress
    topicInfo,      \* the workflow's topicInfo
    msgIdx,         \* index in messages of the message in progress
    sentMessages,   \* the workflow's sentMessages (sequence numbers)
    topicLog,       \* the messages submitted to the topic (indices in messages)
    hcsSteps,       \* history: the activities the workflow has executed
    hcsFaults,      \* failed transactions, writes and subscriptions so far
    hcsReturned     \* what HCSDemoWorkflow returned, or "pending"

topicVars == <<topicFile, topics, topicCalls, topicRet, lastTopicCall, topicIDs>>

hcsVars == <<topicVars, hcsTopicName, hcsPc, hcsAttempt, topicInfo, msgIdx,
             sentMessages, topicLog, hcsSteps, hcsFaults, hcsReturned>>

\* the variables of the specifications of single operations
libVars == <<parseVars, domVars, subVars, hcsVars>>

\* loadZoneRegistryStrict: a missing file reported as an error
loadZoneRegistryStrict(f) ==
    CASE f.kind = "absent"   -> [collections |-> EmptyCollections, err |-> TRUE]
      [] f.kind = "corrupt"  -> [collections |-> EmptyCollections, err |-> TRUE]
      [] f.kind = "registry" -> [collections |-> f.collections, err |-> FALSE]

\* loadZoneRegistry: (registry, err)
loadZoneRegistry(f) ==
    CASE f.kind = "absent"   -> [collections |-> EmptyCollections, err |-> FALSE]
      [] f.kind = "corrupt"  -> [collections |-> EmptyCollections, err |-> TRUE]
      [] f.kind = "registry" -> [collections |-> f.collections, err |-> FALSE]

\* The registry LookupOrCreateZoneCollectionActivity goes on with after the
\* load: a load error is logged and replaced by a fresh empty registry.
RegistryAfterLoad(f) ==
    LET ld == loadZoneRegistry(f)
    IN  IF ld.err THEN EmptyCollections ELSE ld.collections

\* RegistryHitInverted: the validity check negated
RegistryHitInverted(collections, zone) ==
    /\ zone \in DOMAIN collections
    /\ ~validateTokenExists(collections[zone].TokenID)

\* workflow.go 380-384: the zone has an entry and its token id is valid
RegistryHit(collections, zone) ==
    /\ zone \in DOMAIN collections
    /\ validateTokenExists(collections[zone].TokenID)

\* searchForZoneCollection: (ZoneCollectionInfo{}, false), always
searchForZoneCollection(zone) == [collection |-> NoHandle, found |-> FALSE]

\* DeleteNothing: the stale entry left in the map
DeleteNothing(collections, zone) == collections

\* delete(registry.Collections, zone)
Delete(collections, zone) ==
    [z \in DOMAIN collections \ {zone} |-> collections[z]]

\* registry.Collections[zone] = collection
Put(collections, zone, collection) ==
    [z \in DOMAIN collections \cup {zone} |->
        IF z = zone THEN collection ELSE collections[z]]

\* CreatedCollectionReuse: a creation that hands out the zone's existing
\* ledger collection when there is one
CreatedCollectionReuse(l, zone) ==
    LET same == {i \in 1..Len(l) : l[i].Zone = zone}
    IN  IF same = {} THEN Handle(zone, TokenIDString(Len(l) + 1))
        ELSE l[Min(same)]

\* The collection a successful CreateNFTCollectionActivity returns: the
\* ledger numbers its tokens, so every creation yields a new token id.
CreatedCollection(l, zone) == Handle(zone, TokenIDString(Len(l) + 1))

\* os.WriteFile of the marshalled registry: written whole, or the open fails
\* and the file is untouched, or the write fails after the truncation.
WriteOutcomes == {"ok", "openFail", "writeFail"}

\* saveZoneRegistryPatch: a save that patches the file's registry with the
\* entries in memory instead of replacing it
saveZoneRegistryPatch(f, collections, outcome) ==
    CASE outcome = "ok" ->
            FileRegistry([z \in DOMAIN f.collections \cup DOMAIN collections |->
                IF z \in DOMAIN collections THEN collections[z] ELSE f.collections[z]])
      [] outcome = "openFail"  -> f
      [] outcome = "writeFail" -> FileCorrupt

\* saveZoneRegistry: the whole registry in memory replaces the file
saveZoneRegistry(f, collections, outcome) ==
    CASE outcome = "ok"        -> FileRegistry(collections)
      [] outcome = "openFail"  -> f
      [] outcome = "writeFail" -> FileCorrupt

InitRegWith(files) ==
    /\ file \in files
    /\ ledger = <<>>
    /\ pc = [p \in Procs |-> "idle"]
    /\ zoneArg = [p \in Procs |-> ""]
    /\ registry = [p \in Procs |-> EmptyCollections]
    /\ loadErr = [p \in Procs |-> FALSE]
    /\ newCollection = [p \in Procs |-> NoHandle]
    /\ saved = [p \in Procs |-> "none"]
    /\ ret = [p \in Procs |-> [collection |-> NoHandle, err |-> FALSE]]
    /\ calls = 0
    /\ loadedFile = [p \in Procs |-> FileAbsent]
    /\ lastWriter = ""
    /\ recorded = [z \in Zones |-> <<>>]

\* workflow.go 366-400: the activity starts, loads the registry, looks the
\* zone up and either returns the registered collection, or drops a stale
\* entry and goes on: to register a collection the search found, or to
\* create one.
LookupStep(p, zone) ==
    /\ pc[p] = "idle"
    /\ zoneArg' = [zoneArg EXCEPT ![p] = zone]
    /\ loadErr' = [loadErr EXCEPT ![p] = loadZoneRegistry(file).err]
    /\ loadedFile' = [loadedFile EXCEPT ![p] = file]
    /\ LET loaded == RegistryAfterLoad(file)
           kept   == IF zone \in DOMAIN loaded THEN Delete(loaded, zone) ELSE loaded
           sought == searchForZoneCollection(zone)
       IN  IF RegistryHit(loaded, zone)
           THEN /\ registry' = [registry EXCEPT ![p] = loaded]
                /\ ret' = [ret EXCEPT ![p] = [collection |-> loaded[zone], err |-> FALSE]]
                /\ pc' = [pc EXCEPT ![p] = "done"]
                /\ newCollection' = newCollection
           ELSE IF sought.found
           THEN /\ registry' = [registry EXCEPT ![p] = Put(kept, zone, sought.collection)]
                /\ newCollection' = [newCollection EXCEPT ![p] = sought.collection]
                /\ pc' = [pc EXCEPT ![p] = "save"]
                /\ ret' = ret
           ELSE /\ registry' = [registry EXCEPT ![p] = kept]
                /\ pc' = [pc EXCEPT ![p] = "create"]
                /\ UNCHANGED <<ret, newCollection>>
    /\ UNCHANGED <<file, ledger, saved, lastWriter, recorded>>

\* workflow.go 402-410 and CreateNFTCollectionActivity: the token-create
\* transaction succeeds, fails before it reaches the ledger, or reaches the
\* ledger while its receipt is lost (the activity then returns the error).
CreateOutcomes == {"ok", "execFail", "receiptFail"}

\* AfterCreateAlwaysSaves: the registry is saved after a failed creation too
AfterCreateAlwaysSaves(outcome) == "save"

\* workflow.go 403-407: a creation error is returned at once; only a created
\* collection is registered and saved
AfterCreate(outcome) == IF outcome = "ok" THEN "save" ELSE "done"

CreateStep(p, outcome) ==
    /\ pc[p] = "create"
    /\ LET created == CreatedCollection(ledger, zoneArg[p])
       IN  CASE outcome = "ok" ->
                  /\ ledger' = Append(ledger, created)
                  /\ newCollection' = [newCollection EXCEPT ![p] = created]
                  /\ registry' = [registry EXCEPT ![p] = Put(registry[p], zoneArg[p], created)]
                  /\ pc' = [pc EXCEPT ![p] = AfterCreate(outcome)]
                  /\ ret' = ret
             [] outcome = "execFail" ->
                  /\ ret' = [ret EXCEPT ![p] = [collection |-> NoHandle, err |-> TRUE]]
                  /\ pc' = [pc EXCEPT ![p] = AfterCreate(outcome)]
                  /\ UNCHANGED <<ledger, newCollection, registry>>
             [] outcome = "receiptFail" ->
                  /\ ledger' = Append(ledger, created)
                  /\ ret' = [ret EXCEPT ![p] = [collection |-> NoHandle, err |-> TRUE]]
                  /\ pc' = [pc EXCEPT ![p] = AfterCreate(outcome)]
                  /\ UNCHANGED <<newCollection, registry>>
    /\ UNCHANGED <<file, zoneArg, loadErr, saved, calls, loadedFile, lastWriter, recorded>>

\* workflow.go 411-414 (and 398-399): the registry is saved, the save's
\* error is dropped, and the collection is returned.
SaveStep(p, outcome) ==
    /\ pc[p] = "save"
    /\ file' = saveZoneRegistry(file, registry[p], outcome)
    /\ saved' = [saved EXCEPT ![p] = IF outcome = "ok" THEN "ok" ELSE "failed"]
    /\ lastWriter' = IF outcome = "openFail" THEN lastWriter ELSE p
    /\ recorded' = IF outcome = "ok" /\ recorded[zoneArg[p]] = <<>>
                   THEN [recorded EXCEPT ![zoneArg[p]] = newCollection[p].TokenID]
                   ELSE recorded
    /\ ret' = [ret EXCEPT ![p] = [collection |-> newCollection[p], err |-> FALSE]]
    /\ pc' = [pc EXCEPT ![p] = "done"]
    /\ UNCHANGED <<ledger, zoneArg, registry, loadErr, newCollection, calls, loadedFile>>

\* The workflow has received the activity's result.
ReturnStep(p) ==
    /\ pc[p] = "done"
    /\ pc' = [pc EXCEPT ![p] = "idle"]
    /\ zoneArg' = [zoneArg EXCEPT ![p] = ""]
    /\ registry' = [registry EXCEPT ![p] = EmptyCollections]
    /\ loadErr' = [loadErr EXCEPT ![p] = FALSE]
    /\ loadedFile' = [loadedFile EXCEPT ![p] = FileAbsent]
    /\ newCollection' = [newCollection EXCEPT ![p] = NoHandle]
    /\ saved' = [saved EXCEPT ![p] = "none"]
    /\ ret' = [ret EXCEPT ![p] = [collection |-> NoHandle, err |-> FALSE]]
    /\ UNCHANGED <<file, ledger, calls, lastWriter, recorded>>

(***************************************************************************)
(* One searchForDomainInCollection call against an arbitrary server.       *)
(***************************************************************************)
MaxPageItems == 2

\* "ab" and "abcd" (the latter is itself well-formed base64)
SearchLabels == {<<97, 98>>, <<97, 98, 99, 100>>}

\* Metadata the server may serve: "YWI=" (base64 of "ab"), " ab\n" (not
\* base64; "ab" once trimmed), "abcd" (base64 of three other bytes)
SearchMetadata == {<<89, 87, 73, 61>>, <<32, 97, 98, 10>>, <<97, 98, 99, 100>>}

SearchPages ==
    UNION {[1..n -> SearchMetadata] : n \in 0..MaxPageItems}

SearchResponses ==
    {Response(k, <<>>, "none") :
        k \in {"transportErr", "status404", "status500", "badBody"}}
    \cup {Response("page", [i \in 1..Len(md) |-> NFT(i, md[i])], next) :
        md \in SearchPages, next \in {"none", "link", "badLink"}}

SearchQuiet ==
    /\ search = SearchStart
    /\ expectedLabel = <<>>
    /\ fetches = 0
    /\ noMatchYet = TRUE
    /\ matchPage = 0
    /\ lastResponse = Response("none", <<>>, "none")

InitSearch ==
    /\ search = SearchStart
    /\ expectedLabel \in SearchLabels
    /\ fetches = 0
    /\ noMatchYet = TRUE
    /\ matchPage = 0
    /\ lastResponse = Response("none", <<>>, "none")

\* The metadata stands for the label: trimmed of surrounding whitespace it
\* is the label, or it is base64 that decodes to the label.
LabelMatch(metadata, label) ==
    LET raw == TrimSpace(metadata)
    IN  \/ raw = label
        \/ ~Base64Decode(raw).err /\ Base64Decode(raw).bytes = label

\* the positions of the response's items that stand for the label
MatchesIn(resp, label) ==
    {i \in 1..Len(resp.nfts) : LabelMatch(resp.nfts[i].Metadata, label)}

\* client.Get(nextURL) answers with resp and the loop body runs on it
FetchPage(resp) ==
    /\ ~search.done
    /\ search' = SearchStep(search, resp, expectedLabel)
    /\ fetches' = fetches + 1
    /\ noMatchYet' = (noMatchYet /\ resp.kind = "page" /\
                      \A i \in 1..Len(resp.nfts) :
                          /\ TrimSpace(resp.nfts[i].Metadata) # expectedLabel
                          /\ resp.nfts[i].Metadata # Base64Encode(expectedLabel))
    /\ matchPage' = IF matchPage = 0 /\ resp.kind = "page"
                                     /\ MatchesIn(resp, expectedLabel) # {}
                    THEN fetches + 1 ELSE matchPage
    /\ lastResponse' = resp
    /\ UNCHANGED expectedLabel

searchForDomainInCollection ==
    /\ \E resp \in SearchResponses : FetchPage(resp)
    /\ UNCHANGED <<regVars, runVars, libVars>>

(***************************************************************************)
(* IngestFileWorkflow, run over the same log twice.                        *)
(***************************************************************************)
MaximumAttempts == 3
pageSize == 100

\* the runs are explored with at most this many faults of the environment
MaxFaults == 3

\* the runs of the pipeline over the log: a first run and a second one
Runs == {1, 2}

\* MintingInfo, reduced to the fields the workflow and the activities read
MintingInfo(domainName, zone) == [DomainName |-> domainName, Zone |-> zone]

\* Logs: "ab.p" and "cd.p" in zone app; "ab.p" and "AB.p." (the same name
\* once normalized) in zone app; "-x.q" (not a valid domain name) and
\* "ab.p" in zone app and "cd.p" in zone build; "ab.p" and "ab.q" (another
\* name with the same leftmost label) in zone app
Logs ==
    {<<MintingInfo(<<97, 98, 46, 112>>, "app"), MintingInfo(<<99, 100, 46, 112>>, "app")>>,
     <<MintingInfo(<<97, 98, 46, 112>>, "app"), MintingInfo(<<97, 98, 46, 113>>, "app")>>,
     <<MintingInfo(<<97, 98, 46, 112>>, "app"), MintingInfo(<<65, 66, 46, 112, 46>>, "app")>>,
     <<MintingInfo(<<45, 120, 46, 113>>, "app"), MintingInfo(<<97, 98, 46, 112>>, "app"),
       MintingInfo(<<99, 100, 46, 112>>, "build")>>}

\* workflow.go 47-51: zoneGroups[zone], the records of the zone in log order
RECURSIVE ZoneGroup(_, _)
ZoneGroup(infos, zone) ==
    IF infos = <<>> THEN <<>>
    ELSE IF infos[1].Zone = zone
         THEN <<infos[1]>> \o ZoneGroup(Tail(infos), zone)
         ELSE ZoneGroup(Tail(infos), zone)

\* the keys of zoneGroups
ZoneKeys(infos) == {infos[i].Zone : i \in 1..Len(infos)}

\* An NFT on the ledger: its metadata bytes; as history, the record's domain
\* name and the run that minted it.
MintedNFT(metadata, domainName, r) ==
    [Metadata |-> metadata, DomainName |-> domainName, Run |-> r]

\* the NFTs of a collection; a token id without NFTs has none
NFTsOf(tokenID) == IF tokenID \in DOMAIN nfts THEN nfts[tokenID] ELSE <<>>

\* MintMetadataFullName: the whole domain name written as metadata
MintMetadataFullName(dn) == dn

\* workflow.go 335: metadata := []byte(dn.Label())
MintMetadata(dn) == DomainLabel(dn)

\* The mirror node's answer to /tokens/{id}/nfts?limit=100&order=desc when
\* it has ingested the oldest `known` NFTs of the collection: newest first,
\* metadata base64-encoded, in pages of `size` linked by links.next.
RECURSIVE MirrorPagesFrom(_, _, _)
MirrorPagesFrom(items, newest, size) ==
    LET n     == IF newest < size THEN newest ELSE size
        page  == [i \in 1..n |->
                    NFT(newest + 1 - i, Base64Encode(items[newest + 1 - i].Metadata))]
    IN  IF newest <= size
        THEN <<Response("page", page, "none")>>
        ELSE <<Response("page", page, "link")>> \o MirrorPagesFrom(items, newest - n, size)

MirrorPages(items, known) == MirrorPagesFrom(items, known, pageSize)

\* searchForDomainInCollection run to its end against the given responses,
\* the last of which is repeated if the loop asks for more
RECURSIVE RunSearch(_, _, _, _)
RunSearch(st, responses, at, label) ==
    IF st.done THEN st
    ELSE LET resp == responses[IF at <= Len(responses) THEN at ELSE Len(responses)]
         IN  RunSearch(SearchStep(st, resp, label), responses, at + 1, label)

\* isDomainAlreadyMintedByName: the search looks for the whole domain name
isDomainAlreadyMintedByName(domainName, responses) ==
    LET dn == NewDomainName(domainName)
    IN  IF dn.err # "nil"
        THEN [found |-> FALSE, nft |-> NoNFT, err |-> TRUE]
        ELSE LET res == RunSearch(SearchStart, responses, 1, dn.name)
             IN  IF res.err THEN [found |-> FALSE, nft |-> NoNFT, err |-> TRUE]
                 ELSE IF res.found THEN [found |-> TRUE, nft |-> res.nft, err |-> FALSE]
                 ELSE [found |-> FALSE, nft |-> NoNFT, err |-> FALSE]

\* isDomainAlreadyMinted: (alreadyMinted, existingNFT, err)
isDomainAlreadyMinted(domainName, responses) ==
    LET dn == NewDomainName(domainName)
    IN  IF dn.err # "nil"
        THEN [found |-> FALSE, nft |-> NoNFT, err |-> TRUE]
        ELSE LET res == RunSearch(SearchStart, responses, 1, DomainLabel(dn.name))
             IN  IF res.err THEN [found |-> FALSE, nft |-> NoNFT, err |-> TRUE]
                 ELSE IF res.found THEN [found |-> TRUE, nft |-> res.nft, err |-> FALSE]
                 ELSE [found |-> FALSE, nft |-> NoNFT, err |-> FALSE]

\* What the mirror node answers to one duplicate search: the request
\* fails, or the pages of the NFTs it has ingested so far are served (a 404
\* is to the search what a first page without items is).
MirrorAnswers(tokenID) ==
    {<<Response("transportErr", <<>>, "none")>>}
    \cup {MirrorPages(NFTsOf(tokenID), known) : known \in 0..Len(NFTsOf(tokenID))}

\* The mint transaction: executed and confirmed; not executed (or the
\* credentials do not parse); executed with its receipt lost.
MintOutcomes == {"ok", "execFail", "receiptFail"}

\* AfterDuplicateCheckIgnoresFound: a found NFT does not end the activity
AfterDuplicateCheckIgnoresFound(check) == "mint"

\* AfterDuplicateCheckFailClosed: an error of the check fails the activity
AfterDuplicateCheckFailClosed(check) ==
    IF check.err THEN "fail" ELSE IF check.found THEN "skip" ELSE "mint"

\* workflow.go 298-306: an error of the check is logged and the activity
\* goes on to mint; a found NFT makes it return nil
AfterDuplicateCheck(check) ==
    IF check.err THEN "mint" ELSE IF check.found THEN "skip" ELSE "mint"

\* MintNFTResultUnvalidated: the metadata is built without NewDomainName's
\* error being looked at
MintNFTResultUnvalidated(info, collection, responses, outcome) ==
    LET check == isDomainAlreadyMinted(info.DomainName, responses)
        after == AfterDuplicateCheck(check)
    IN  IF after = "skip" THEN "skipped"
        ELSE IF after = "fail" THEN "failed"
        ELSE IF ~tokenIDFromStringOk(collection.TokenID) THEN "failed"
        ELSE CASE outcome = "ok"          -> "minted"
               [] outcome = "execFail"    -> "failed"
               [] outcome = "receiptFail" -> "mintedFailed"

\* MintNFTActivity: "skipped" (already minted, nil), "minted" (nil),
\* "failed" (error, nothing minted), "mintedFailed" (error after the mint)
MintNFTResult(info, collection, responses, outcome) ==
    LET check == isDomainAlreadyMinted(info.DomainName, responses)
        dn    == NewDomainName(info.DomainName)
        after == AfterDuplicateCheck(check)
    IN  IF after = "skip" THEN "skipped"
        ELSE IF after = "fail" THEN "failed"
        ELSE IF ~tokenIDFromStringOk(collection.TokenID) THEN "failed"
        ELSE IF dn.err # "nil" THEN "failed"
        ELSE CASE outcome = "ok"          -> "minted"
               [] outcome = "execFail"    -> "failed"
               [] outcome = "receiptFail" -> "mintedFailed"

\* workflow.go 17-25: the RetryPolicy of every activity, in seconds
InitialInterval == 1
BackoffCoefficient == 2
MaximumInterval == 60

\* the wait after failed attempt number att
RetryInterval(att) ==
    Min({InitialInterval * BackoffCoefficient ^ (att - 1), MaximumInterval})

\* MayRetryOnceMore: a fourth attempt is allowed
MayRetryOnceMore(att) == att <= MaximumAttempts

\* a failed attempt number att is followed by another one
MayRetry(att) == att < MaximumAttempts

\* What an attempt means for its step: it is retried, or the step is over
\* with a result ("ok") or with the error ("failed").
Verdict(failed, att) ==
    IF ~failed THEN "ok" ELSE IF MayRetry(att) THEN "retry" ELSE "failed"

\* An executed activity: which one, for which zone and which domain of the
\* zone's group, how it ended ("running" until then), in how many attempts
\* and after which waits.
Step(kind, zone, idx, outcome, attempts, waits) ==
    [kind |-> kind, zone |-> zone, idx |-> idx, outcome |-> outcome,
     attempts |-> attempts, waits |-> waits]

\* attempt number att of an activity starts
StartAttempt(log, kind, zone, idx, att) ==
    IF att = 1 THEN Append(log, Step(kind, zone, idx, "running", 1, <<>>))
    ELSE [log EXCEPT ![Len(log)].attempts = att]

\* attempt number att of the activity in progress ends
EndAttempt(log, verdict, att) ==
    IF verdict = "retry"
    THEN [log EXCEPT ![Len(log)].waits = Append(@, RetryInterval(att))]
    ELSE [log EXCEPT ![Len(log)].outcome = verdict]

\* OnErrorNeverReturns: a failed read or parse is skipped over
OnErrorNeverReturns(kind) ==
    CASE kind \in {"read", "parse"} -> "continue"
      [] kind = "provision"         -> "skipZone"
      [] kind = "mint"              -> "continue"

\* OnErrorProvisionIgnored: the domain loop runs after a failed provisioning
OnErrorProvisionIgnored(kind) ==
    CASE kind \in {"read", "parse"} -> "return"
      [] kind = "provision"         -> "continue"
      [] kind = "mint"              -> "continue"

\* OnErrorMintSkipsZone: a failed mint ends the zone's domain loop
OnErrorMintSkipsZone(kind) ==
    CASE kind \in {"read", "parse"} -> "return"
      [] kind = "provision"         -> "skipZone"
      [] kind = "mint"              -> "skipZone"

\* OnErrorMintReturns: a failed mint makes the workflow return the error
OnErrorMintReturns(kind) ==
    CASE kind \in {"read", "parse"} -> "return"
      [] kind = "provision"         -> "skipZone"
      [] kind = "mint"              -> "return"

\* What the workflow does with the error of an activity: workflow.go 31-34
\* and 40-43 (return err), 62-65 (continue with the next zone), 70-74
\* (continue with the next domain).
OnError(kind) ==
    CASE kind \in {"read", "parse"} -> "return"
      [] kind = "provision"         -> "skipZone"
      [] kind = "mint"              -> "continue"

\* the workflow's move after a step that is over
Move(kind, verdict) == IF verdict = "ok" THEN "continue" ELSE OnError(kind)

\* NextDomainSkipsOne: the domain loop advances by two
NextDomainSkipsOne(idx) == idx + 2

\* workflow.go 68: for _, info := range domainInfos
NextDomain(idx) == idx + 1

\* MintTraceMintFirst: the mint transaction ahead of the duplicate search
MintTraceMintFirst(searched, submitted) ==
    (IF submitted THEN <<"mint">> ELSE <<>>) \o (IF searched THEN <<"search">> ELSE <<>>)

\* What an attempt of MintNFTActivity does on the network, in order: the
\* duplicate search of line 298 (none for a name NewDomainName rejects,
\* lines 471-474), then the mint transaction of line 345
MintTrace(searched, submitted) ==
    (IF searched THEN <<"search">> ELSE <<>>) \o (IF submitted THEN <<"mint">> ELSE <<>>)

NoMint ==
    [run |-> 0, info |-> MintingInfo(<<>>, ""), collection |-> NoHandle,
     responses |-> <<>>, outcome |-> "none", result |-> "none", trace |-> <<>>]

InitRun ==
    /\ records \in Logs
    /\ provisioned = [z \in Zones |-> NoHandle]
    /\ startFile = FileAbsent
    /\ run = 1
    /\ wf = "read"
    /\ zonesLeft = {}
    /\ curZone = ""
    /\ zoneCollection = NoHandle
    /\ domIdx = 0
    /\ attempt = 1
    /\ nfts = [t \in {} |-> <<>>]
    /\ lastMint = NoMint
    /\ faults = 0
    /\ returned = [r \in Runs |-> "pending"]
    /\ steps = <<>>

RunQuiet ==
    /\ records = <<>>
    /\ provisioned = [z \in Zones |-> NoHandle]
    /\ startFile = FileAbsent
    /\ run = 0
    /\ wf = "returned"
    /\ zonesLeft = {}
    /\ curZone = ""
    /\ zoneCollection = NoHandle
    /\ domIdx = 0
    /\ attempt = 1
    /\ nfts = [t \in {} |-> <<>>]
    /\ lastMint = NoMint
    /\ faults = 0
    /\ returned = [r \in Runs |-> "pending"]
    /\ steps = <<>>

\* A step in which the environment fails (a transaction, a file write or a
\* mirror-node query fails, or the mirror node lags behind the ledger) uses
\* up one of the faults explored.
Faulty(failed) ==
    IF failed THEN faults < MaxFaults /\ faults' = faults + 1
    ELSE faults' = faults

\* the activity executions of the workflow run on this worker
Worker == "p1"

\* the error of a failed step
StepError(kind) ==
    CASE kind = "read"      -> "readErr"
      [] kind = "parse"     -> "parseErr"
      [] kind = "provision" -> "provisionErr"
      [] kind = "mint"      -> "mintErr"

\* workflow.go 33, 42, 80: the workflow returns err ("nil" or a step's)
Return(err) ==
    /\ wf' = "returned"
    /\ returned' = [returned EXCEPT ![run] = err]
    /\ attempt' = 1

\* The position after the step of the given kind is over; on that goes the
\* workflow with the zone loop, with the domain loop, or returns.
AfterStep(kind, verdict) ==
    LET move == Move(kind, verdict)
    IN  CASE move = "return" ->
               /\ Return(StepError(kind))
               /\ UNCHANGED <<zonesLeft, zoneCollection, domIdx>>
          [] move = "skipZone" ->
               /\ wf' = "zones" /\ attempt' = 1 /\ domIdx' = 0
               /\ UNCHANGED <<returned, zonesLeft, zoneCollection>>
          [] move = "continue" /\ kind = "read" ->
               /\ wf' = "parse" /\ attempt' = 1
               /\ UNCHANGED <<returned, zonesLeft, zoneCollection, domIdx>>
          [] move = "continue" /\ kind = "parse" ->
               /\ wf' = "zones" /\ attempt' = 1
               /\ zonesLeft' = ZoneKeys(records)
               /\ UNCHANGED <<returned, zoneCollection, domIdx>>
          [] move = "continue" /\ kind = "provision" ->
               /\ wf' = "mint" /\ attempt' = 1 /\ domIdx' = 1
               /\ zoneCollection' = ret[Worker].collection
               /\ UNCHANGED <<returned, zonesLeft>>
          [] move = "continue" /\ kind = "mint" ->
               /\ attempt' = 1
               /\ IF NextDomain(domIdx) <= Len(ZoneGroup(records, curZone))
                  THEN wf' = "mint" /\ domIdx' = NextDomain(domIdx)
                  ELSE wf' = "zones" /\ domIdx' = 0
               /\ UNCHANGED <<returned, zonesLeft, zoneCollection>>

\* An attempt of the step of the given kind is over: it is retried, or the
\* workflow moves on.
AfterAttempt(kind, failed) ==
    LET verdict == Verdict(failed, attempt)
    IN  /\ steps' = EndAttempt(StartAttempt(steps, kind, curZone, domIdx, attempt),
                               verdict, attempt)
        /\ IF verdict = "retry"
           THEN /\ attempt' = attempt + 1
                /\ UNCHANGED <<wf, returned, zonesLeft, zoneCollection, domIdx>>
           ELSE AfterStep(kind, verdict)

\* workflow.go 28-34 and ReadFileActivity: the file is read, or os.Open or
\* the scanner fails
ReadFileActivity ==
    /\ wf = "read"
    /\ \E failed \in BOOLEAN :
        /\ Faulty(failed)
        /\ AfterAttempt("read", failed)
    /\ UNCHANGED <<records, provisioned, startFile, run, curZone, nfts, lastMint, regVars, searchVars, libVars>>

\* workflow.go 37-43 and ParseAndFilterEventsActivity: the lines are parsed
\* into mintingInfos, or the activity execution fails
ParseAndFilterEventsActivity ==
    /\ wf = "parse"
    /\ \E failed \in BOOLEAN :
        /\ Faulty(failed)
        /\ AfterAttempt("parse", failed)
    /\ UNCHANGED <<records, provisioned, startFile, run, curZone, nfts, lastMint, regVars, searchVars, libVars>>

\* workflow.go 56 and 80: the range loop takes the next zone, in any order;
\* with no zone left the workflow returns nil.
NextZone ==
    /\ wf = "zones"
    /\ IF zonesLeft # {}
       THEN /\ \E zone \in zonesLeft :
                /\ curZone' = zone
                /\ zonesLeft' = zonesLeft \ {zone}
            /\ wf' = "provision"
            /\ attempt' = 1
            /\ returned' = returned
       ELSE /\ curZone' = ""
            /\ Return("nil")
            /\ zonesLeft' = zonesLeft
    /\ zoneCollection' = NoHandle
    /\ domIdx' = 0
    /\ UNCHANGED <<records, provisioned, startFile, run, nfts, lastMint, faults, steps, regVars, searchVars, libVars>>

\* the pipeline is run again over the same log
IngestFileWorkflow ==
    /\ wf = "returned"
    /\ run + 1 \in Runs
    /\ run' = run + 1
    /\ wf' = "read"
    /\ attempt' = 1
    /\ steps' = <<>>
    /\ provisioned' = [z \in Zones |-> NoHandle]
    /\ startFile' = file
    /\ UNCHANGED <<records, zonesLeft, curZone, zoneCollection, domIdx, nfts,
                   lastMint, faults, returned, regVars, searchVars, libVars>>

\* workflow.go 61: an attempt of LookupOrCreateZoneCollectionActivity starts
ProvisionLookup ==
    /\ wf = "provision"
    /\ LookupStep(Worker, curZone)
    /\ steps' = StartAttempt(steps, "provision", curZone, 0, attempt)
    /\ UNCHANGED <<calls, records, provisioned, startFile, run, wf, zonesLeft, curZone, zoneCollection,
                   domIdx, attempt, nfts, lastMint, faults, returned, searchVars, libVars>>

ProvisionCreate ==
    /\ wf = "provision"
    /\ \E outcome \in CreateOutcomes :
        /\ CreateStep(Worker, outcome)
        /\ Faulty(outcome # "ok")
    /\ UNCHANGED <<records, provisioned, startFile, run, wf, zonesLeft, curZone, zoneCollection, domIdx,
                   attempt, nfts, lastMint, returned, steps, searchVars, libVars>>

ProvisionSave ==
    /\ wf = "provision"
    /\ \E outcome \in WriteOutcomes :
        /\ SaveStep(Worker, outcome)
        /\ Faulty(outcome # "ok")
    /\ UNCHANGED <<records, provisioned, startFile, run, wf, zonesLeft, curZone, zoneCollection, domIdx,
                   attempt, nfts, lastMint, returned, steps, searchVars, libVars>>

\* workflow.go 61-65: the attempt's result reaches the workflow: an error is
\* retried until MaximumAttempts and then skips the zone, a collection
\* starts the zone's domain loop.
ProvisionResult ==
    /\ wf = "provision"
    /\ pc[Worker] = "done"
    /\ ReturnStep(Worker)
    /\ LET verdict == Verdict(ret[Worker].err, attempt)
       IN  /\ steps' = EndAttempt(steps, verdict, attempt)
           /\ IF verdict = "retry"
              THEN /\ attempt' = attempt + 1
                   /\ UNCHANGED <<wf, returned, zonesLeft, zoneCollection, domIdx>>
              ELSE AfterStep("provision", verdict)
    /\ provisioned' = IF ~ret[Worker].err
                      THEN [provisioned EXCEPT ![curZone] = ret[Worker].collection]
                      ELSE provisioned
    /\ UNCHANGED <<records, startFile, run, curZone, nfts, lastMint, faults, searchVars, libVars>>

\* workflow.go 68-76 and MintNFTActivity: one attempt for the domain in
\* progress; an error is retried until MaximumAttempts, after which, as
\* after a success, the loop goes on with the zone's next domain.
MintNFTActivity ==
    /\ wf = "mint"
    /\ LET group == ZoneGroup(records, curZone)
           info  == group[domIdx]
           token == zoneCollection.TokenID
           \* a name that is not a domain name is not searched for
           asked == IF NewDomainName(info.DomainName).err = "nil"
                    THEN MirrorAnswers(token) ELSE {<<>>}
       IN  \E responses \in asked, outcome \in MintOutcomes :
            LET result == MintNFTResult(info, zoneCollection, responses, outcome)
                minted == result \in {"minted", "mintedFailed"}
                failed == result \in {"failed", "mintedFailed"}
                item   == MintedNFT(MintMetadata(NewDomainName(info.DomainName).name),
                                    info.DomainName, run)
                lag    == /\ responses # <<>>
                          /\ responses # MirrorPages(NFTsOf(token), Len(NFTsOf(token)))
                submit == result # "skipped"
                          /\ tokenIDFromStringOk(zoneCollection.TokenID)
                          /\ NewDomainName(info.DomainName).err = "nil"
            IN  /\ Faulty(lag \/ (submit /\ outcome # "ok"))
                \* without a transaction its outcome is not a choice
                /\ ~submit => outcome = "ok"
                /\ nfts' = IF minted
                           THEN [t \in DOMAIN nfts \cup {token} |->
                                    IF t = token THEN Append(NFTsOf(token), item)
                                    ELSE nfts[t]]
                           ELSE nfts
                /\ lastMint' = [run |-> run, info |-> info, collection |-> zoneCollection,
                                responses |-> responses, outcome |-> outcome,
                                result |-> result,
                                trace |-> MintTrace(responses # <<>>, submit)]
                /\ AfterAttempt("mint", failed)
    /\ UNCHANGED <<records, provisioned, startFile, run, curZone, regVars, searchVars, libVars>>

(***************************************************************************)
(* The specifications.                                                     *)
(***************************************************************************)
(***************************************************************************)
(* The parse activity and the grouping loop on their own.                  *)
(***************************************************************************)
MaxLines == 3

\* the log files: up to MaxLines lines
LogFiles == UNION {[1..n -> LogLines] : n \in 0..MaxLines}

InitParse ==
    /\ lines \in LogFiles
    /\ mintingInfos = <<>>
    /\ parseErr = "pending"
    /\ zoneGroups = NoGroups
    /\ parsePc = "parse"

ParseQuiet ==
    /\ lines = <<>>
    /\ mintingInfos = <<>>
    /\ parseErr = "pending"
    /\ zoneGroups = NoGroups
    /\ parsePc = "quiet"

\* workflow.go 37-43: the activity runs; its error ends the workflow
ParseLines ==
    /\ parsePc = "parse"
    /\ LET result == ParseAndFilterEvents(lines)
       IN  /\ mintingInfos' = result.mintingInfos
           /\ parseErr' = result.err
           /\ parsePc' = IF result.err = "nil" THEN "group" ELSE "returned"
    /\ UNCHANGED <<lines, zoneGroups, regVars, searchVars, runVars, domVars, subVars, hcsVars>>

\* workflow.go 47-51
GroupDomainsByZone ==
    /\ parsePc = "group"
    /\ zoneGroups' = GroupByZone(mintingInfos, NoGroups)
    /\ parsePc' = "grouped"
    /\ UNCHANGED <<lines, mintingInfos, parseErr, regVars, searchVars, runVars, domVars, subVars, hcsVars>>

(***************************************************************************)
(* The operations of pkg/domain, one call each.                            *)
(***************************************************************************)
MaxNameLen == 4
MaxLabelLen == 5

\* the arguments of NewDomainName
RawNames == StringsUpTo(NameAlphabet, MaxNameLen) \cup LongNames \cup SampleNames

\* the labels Label.Validate is called on
RawLabels == StringsUpTo(LabelAlphabet, MaxLabelLen) \cup SampleLabels

InitDomain ==
    /\ \/ domOp = "new" /\ rawName \in RawNames
       \/ domOp = "json" /\ rawName \in JSONNames
       \/ domOp = "label" /\ rawName \in RawLabels
    /\ domPc = "call"
    /\ candidate = <<>>
    /\ dnValue = <<>>
    /\ dnErr = "pending"
    /\ dnLabel = <<>>
    /\ dnParent = <<>>

DomQuiet ==
    /\ domOp = "quiet"
    /\ rawName = <<>>
    /\ domPc = "call"
    /\ candidate = <<>>
    /\ dnValue = <<>>
    /\ dnErr = "pending"
    /\ dnLabel = <<>>
    /\ dnParent = <<>>


\* part_001 28-35: NewDomainName(rawName)
CallNewDomainName ==
    /\ domOp = "new" /\ domPc = "call"
    /\ LET result == NewDomainName(rawName)
       IN  /\ candidate' = result.name
           /\ dnErr' = result.err
           /\ dnValue' = IF result.err = "nil" THEN result.name ELSE <<>>
           /\ domPc' = IF result.err = "nil" THEN "made" ELSE "failed"
    /\ UNCHANGED <<domOp, rawName, dnLabel, dnParent, regVars, searchVars, runVars, parseVars, subVars, hcsVars>>

\* part_001 73-81: d.UnmarshalJSON(rawName) on a new DomainName
CallUnmarshalJSON ==
    /\ domOp = "json" /\ domPc = "call"
    /\ LET result == DomainNameUnmarshalJSON(rawName)
       IN  /\ dnErr' = result.err
           /\ dnValue' = result.name
           /\ domPc' = IF result.err = "nil" THEN "made" ELSE "failed"
    /\ UNCHANGED <<domOp, rawName, candidate, dnLabel, dnParent, regVars, searchVars, runVars, parseVars, subVars, hcsVars>>

\* label.go 32-58: Label(rawName).Validate()
CallLabelValidate ==
    /\ domOp = "label" /\ domPc = "call"
    /\ dnErr' = LabelValidate(rawName)
    /\ domPc' = "validated"
    /\ UNCHANGED <<domOp, rawName, candidate, dnValue, dnLabel, dnParent, regVars, searchVars, runVars, parseVars, subVars, hcsVars>>

\* part_001 56-65: d.Label() and d.ParentDomain() of the DomainName made
ReadLabelAndParent ==
    /\ domPc = "made"
    /\ dnLabel' = DomainLabel(dnValue)
    /\ dnParent' = ParentDomain(dnValue)
    /\ domPc' = "read"
    /\ UNCHANGED <<domOp, rawName, candidate, dnValue, dnErr, regVars, searchVars, runVars, parseVars, subVars, hcsVars>>

(***************************************************************************)
(* SubscribeToTopicActivity: the activity and the callback it hands to     *)
(* query.Subscribe, which the SDK runs on its own goroutine for every      *)
(* message of the stream.                                                  *)
(***************************************************************************)
MaxMessages == 3

\* workflow.go 886
DefaultLimit == 100

\* the Limit fields of the model's subscriptions
SubLimits == {0, 1, 2}

\* message.Contents
MessageContents == {"m1", "m2"}

\* shared.go 76-81, with the topic id as whether TopicIDFromString accepts
\* it and the end time as whether it is set
Subscriptions == [TopicIDOk : BOOLEAN, EndTimeSet : BOOLEAN, Limit : SubLimits]

\* workflow.go 897-903
TopicMessage(sequenceNumber, contents) ==
    [SequenceNumber |-> sequenceNumber, Message |-> contents]

\* What the activity returns: ([]TopicMessage, error)
SubscribeResult(msgs, err) == [messages |-> msgs, err |-> err]

NoSubscribeResult == SubscribeResult(<<>>, "pending")

\* workflow.go 884-887
EffectiveLimit(limit) == IF limit = 0 THEN DefaultLimit ELSE limit

InitSubscribe ==
    /\ subscription \in Subscriptions
    /\ subPc = "call"
    /\ streamOpen = FALSE
    /\ messages = <<>>
    /\ messageCount = 0
    /\ subResult = NoSubscribeResult

SubQuiet ==
    /\ subscription = [TopicIDOk |-> FALSE, EndTimeSet |-> FALSE, Limit |-> 0]
    /\ subPc = "quiet"
    /\ streamOpen = FALSE
    /\ messages = <<>>
    /\ messageCount = 0
    /\ subResult = NoSubscribeResult

(***************************************************************************)
(* The topic registry (shared.go), LookupOrCreateTopicActivity and         *)
(* HCSDemoWorkflow.                                                        *)
(***************************************************************************)
MaxTopicCalls == 3

\* the workflow is explored with at most this many faults of the environment
MaxHCSFaults == 6

\* topicName arguments
TopicNames == {"t1", "t2"}

\* TopicInfo, reduced to the fields the activities and the workflow read
TopicInfo(topicName, topicID) == [TopicName |-> topicName, TopicID |-> topicID]

\* TopicInfo{}
NoTopicInfo == TopicInfo("", <<>>)

\* make(map[string]TopicInfo)
NoTopics == [n \in {} |-> NoTopicInfo]

\* The contents of hcs_topics.json: kind "absent" (no file), "corrupt"
\* (bytes that do not decode as a TopicRegistry) or "registry".
TopicRegistryFile(kind, registered) == [kind |-> kind, topics |-> registered]

\* Files an earlier deployment may have left: none, an undecodable one, an
\* empty registry, and one that registers t1 as "0.0.9" or as "0.0" (which
\* hedera.TopicIDFromString rejects).
InitTopicFiles ==
    {TopicRegistryFile("absent", NoTopics), TopicRegistryFile("corrupt", NoTopics),
     TopicRegistryFile("registry", NoTopics)} \cup
    {TopicRegistryFile("registry", [n \in {"t1"} |-> TopicInfo("t1", id)]) :
        id \in {<<48, 46, 48, 46, 57>>, <<48, 46, 48>>}}

\* loadTopicRegistry: (registry, err)
loadTopicRegistry(f) ==
    CASE f.kind = "absent"   -> [topics |-> NoTopics, err |-> FALSE]
      [] f.kind = "corrupt"  -> [topics |-> NoTopics, err |-> TRUE]
      [] f.kind = "registry" -> [topics |-> f.topics, err |-> FALSE]

\* saveTopicRegistry: the file after os.WriteFile ended as outcome, and the
\* error returned
saveTopicRegistry(f, registered, outcome) ==
    CASE outcome = "ok" ->
            [file |-> TopicRegistryFile("registry", registered), err |-> FALSE]
      [] outcome = "openFail" ->
            [file |-> f, err |-> TRUE]
      [] outcome = "writeFail" ->
            [file |-> TopicRegistryFile("corrupt", NoTopics), err |-> TRUE]

\* registerTopic: load, add the topic under its name, save
registerTopic(f, info, outcome) ==
    LET ld == loadTopicRegistry(f)
    IN  IF ld.err THEN [file |-> f, err |-> TRUE]
        ELSE saveTopicRegistry(f, Put(ld.topics, info.TopicName, info), outcome)

\* The topic-create transaction: executed and confirmed; not executed (or
\* the credentials do not parse); executed with its receipt lost.
TopicCreateOutcomes == {"ok", "execFail", "receiptFail"}

\* What one activity call leaves behind and returns
TopicCallResult(f, l, info, err) == [file |-> f, topics |-> l, info |-> info, err |-> err]

\* CreateTopicActivity: the ledger numbers its topics; the error of
\* registerTopic is printed as a warning and the topic returned
CreateTopicActivity(f, l, topicName, outcome, write) ==
    LET info == TopicInfo(topicName, TokenIDString(Len(l) + 1))
    IN  CASE outcome = "ok" ->
                TopicCallResult(registerTopic(f, info, write).file, Append(l, info),
                                info, FALSE)
          [] outcome = "execFail" ->
                TopicCallResult(f, l, NoTopicInfo, TRUE)
          [] outcome = "receiptFail" ->
                TopicCallResult(f, Append(l, info), NoTopicInfo, TRUE)

\* LookupOrCreateTopicActivity: a registered name returns its entry; an
\* unregistered one, or a registry that does not load, creates a topic
LookupOrCreateTopic(f, l, topicName, outcome, write) ==
    LET ld == loadTopicRegistry(f)
    IN  IF ~ld.err /\ topicName \in DOMAIN ld.topics
        THEN TopicCallResult(f, l, ld.topics[topicName], FALSE)
        ELSE CreateTopicActivity(f, l, topicName, outcome, write)

NoTopicCall ==
    [name |-> "", file |-> TopicRegistryFile("absent", NoTopics), topics |-> <<>>]

InitTopics ==
    /\ topicFile \in InitTopicFiles
    /\ topics = <<>>
    /\ topicCalls = 0
    /\ topicRet = [info |-> NoTopicInfo, err |-> FALSE]
    /\ lastTopicCall = NoTopicCall
    /\ topicIDs = [n \in TopicNames |-> {}]

\* One call of the activity for topicName, from its start to its return.
TopicCall(topicName, outcome, write) ==
    LET res == LookupOrCreateTopic(topicFile, topics, topicName, outcome, write)
    IN  /\ topicFile' = res.file
        /\ topics' = res.topics
        /\ topicRet' = [info |-> res.info, err |-> res.err]
        /\ lastTopicCall' = [name |-> topicName, file |-> topicFile, topics |-> topics]
        /\ topicIDs' = IF res.err THEN topicIDs
                       ELSE [topicIDs EXCEPT ![topicName] = @ \cup {res.info.TopicID}]
        /\ topicCalls' = topicCalls + 1

\* A step in which the environment fails uses up one of the faults explored.
HCSFaulty(failed) ==
    IF failed THEN hcsFaults < MaxHCSFaults /\ hcsFaults' = hcsFaults + 1
    ELSE hcsFaults' = hcsFaults

\* the workflow's messages (workflow.go 115-120), by index
DemoMessages == 1..4

\* The message-submit transaction of SendMessageToTopicActivity
SendOutcomes == {"ok", "execFail", "receiptFail"}

\* hedera.TopicIDFromString accepts shard.realm.num
topicIDFromStringOk(s) == tokenIDFromStringOk(s)

\* OnHCSErrorSubscribeReturns: a failed subscription fails the workflow
OnHCSErrorSubscribeReturns(kind) ==
    CASE kind = "lookup"    -> "return"
      [] kind = "send"      -> "continue"
      [] kind = "subscribe" -> "return"
      [] kind = "check"     -> "continue"

\* What HCSDemoWorkflow does with the error of an activity: workflow.go
\* 108-111 (return err), 126-129 (continue with the next message), 146-148
\* and 155-157 (log it and go on)
OnHCSError(kind) ==
    CASE kind = "lookup"    -> "return"
      [] kind = "send"      -> "continue"
      [] kind = "subscribe" -> "continue"
      [] kind = "check"     -> "continue"

InitHCS ==
    /\ InitTopics
    /\ hcsTopicName \in TopicNames
    /\ hcsPc = "lookup"
    /\ hcsAttempt = 1
    /\ topicInfo = NoTopicInfo
    /\ msgIdx = 0
    /\ sentMessages = <<>>
    /\ topicLog = <<>>
    /\ hcsSteps = <<>>
    /\ hcsFaults = 0
    /\ hcsReturned = "pending"

HCSIdle ==
    /\ hcsTopicName = ""
    /\ hcsPc = "quiet"
    /\ hcsAttempt = 1
    /\ topicInfo = NoTopicInfo
    /\ msgIdx = 0
    /\ sentMessages = <<>>
    /\ topicLog = <<>>
    /\ hcsSteps = <<>>
    /\ hcsFaults = 0
    /\ hcsReturned = "pending"

HcsQuiet ==
    /\ topicFile = TopicRegistryFile("absent", NoTopics)
    /\ topics = <<>>
    /\ topicCalls = 0
    /\ topicRet = [info |-> NoTopicInfo, err |-> FALSE]
    /\ lastTopicCall = NoTopicCall
    /\ topicIDs = [n \in TopicNames |-> {}]
    /\ HCSIdle

\* The position after the step of the given kind is over.
AfterHCSStep(kind, verdict) ==
    LET move == IF verdict = "ok" THEN "continue" ELSE OnHCSError(kind)
    IN  CASE move = "return" ->
               /\ hcsPc' = "returned"
               /\ hcsReturned' = kind
               /\ msgIdx' = msgIdx
          [] move = "continue" /\ kind = "lookup" ->
               /\ hcsPc' = "send"
               /\ msgIdx' = 1
               /\ hcsReturned' = hcsReturned
          [] move = "continue" /\ kind = "send" ->
               /\ IF msgIdx + 1 \in DemoMessages
                  THEN hcsPc' = "send" /\ msgIdx' = msgIdx + 1
                  ELSE hcsPc' = "subscribe" /\ msgIdx' = 0
               /\ hcsReturned' = hcsReturned
          [] move = "continue" /\ kind = "subscribe" ->
               /\ hcsPc' = "check"
               /\ UNCHANGED <<msgIdx, hcsReturned>>
          [] move = "continue" /\ kind = "check" ->
               /\ hcsPc' = "returned"
               /\ hcsReturned' = "nil"
               /\ msgIdx' = msgIdx

\* An attempt of the step of the given kind is over: it is retried under
\* the RetryPolicy of workflow.go 89-97, or the workflow moves on.
AfterHCSAttempt(kind, failed) ==
    LET verdict == Verdict(failed, hcsAttempt)
    IN  /\ hcsSteps' = EndAttempt(StartAttempt(hcsSteps, kind, hcsTopicName, msgIdx,
                                               hcsAttempt),
                                  verdict, hcsAttempt)
        /\ IF verdict = "retry"
           THEN /\ hcsAttempt' = hcsAttempt + 1
                /\ UNCHANGED <<hcsPc, msgIdx, hcsReturned>>
           ELSE /\ hcsAttempt' = 1
                /\ AfterHCSStep(kind, verdict)

\* workflow.go 100-112: an attempt of LookupOrCreateTopicActivity
HCSLookupOrCreateTopic ==
    /\ hcsPc = "lookup"
    /\ \E outcome \in TopicCreateOutcomes, write \in WriteOutcomes :
        /\ TopicCall(hcsTopicName, outcome, write)
        /\ HCSFaulty(outcome # "ok" \/ write # "ok")
    /\ topicInfo' = IF topicRet'.err THEN topicInfo ELSE topicRet'.info
    /\ AfterHCSAttempt("lookup", topicRet'.err)
    /\ UNCHANGED <<hcsTopicName, sentMessages, topicLog, regVars, searchVars, runVars,
                   parseVars, domVars, subVars>>

\* workflow.go 123-135 and SendMessageToTopicActivity: an attempt for the
\* message in progress
HCSSendMessage ==
    /\ hcsPc = "send"
    /\ \E outcome \in SendOutcomes :
        LET idOk      == topicIDFromStringOk(topicInfo.TopicID)
            submitted == idOk /\ outcome \in {"ok", "receiptFail"}
            failed    == ~idOk \/ outcome # "ok"
        IN  /\ ~idOk => outcome = "ok"
            /\ HCSFaulty(outcome # "ok")
            /\ topicLog' = IF submitted THEN Append(topicLog, msgIdx) ELSE topicLog
            /\ sentMessages' = IF failed THEN sentMessages
                               ELSE Append(sentMessages, Len(topicLog) + 1)
            /\ AfterHCSAttempt("send", failed)
    /\ UNCHANGED <<topicVars, hcsTopicName, topicInfo, regVars, searchVars, runVars,
                   parseVars, domVars, subVars>>

\* workflow.go 137-151 and SubscribeToTopicActivity: an attempt
HCSSubscribe ==
    /\ hcsPc = "subscribe"
    /\ \E failed \in BOOLEAN :
        /\ ~topicIDFromStringOk(topicInfo.TopicID) => failed
        /\ HCSFaulty(failed /\ topicIDFromStringOk(topicInfo.TopicID))
        /\ AfterHCSAttempt("subscribe", failed)
    /\ UNCHANGED <<topicVars, hcsTopicName, topicInfo, sentMessages, topicLog, regVars,
                   searchVars, runVars, parseVars, domVars, subVars>>

\* workflow.go 153-165 and CheckTopicRegistryActivity, which fails when the
\* registry does not load
HCSCheckTopicRegistry ==
    /\ hcsPc = "check"
    /\ AfterHCSAttempt("check", loadTopicRegistry(topicFile).err)
    /\ UNCHANGED <<topicVars, hcsTopicName, topicInfo, sentMessages, topicLog, hcsFaults, regVars,
                   searchVars, runVars, parseVars, domVars, subVars>>

\* LookupOrCreateTopicActivity called on its own, one call after another
LookupOrCreateTopicActivity ==
    /\ hcsPc = "quiet"
    /\ topicCalls < MaxTopicCalls
    /\ \E topicName \in TopicNames, outcome \in TopicCreateOutcomes, write \in WriteOutcomes :
        TopicCall(topicName, outcome, write)
    /\ UNCHANGED <<hcsTopicName, hcsPc, hcsAttempt, topicInfo, msgIdx, sentMessages,
                   topicLog, hcsSteps, hcsFaults, hcsReturned, regVars, searchVars, runVars,
                   parseVars, domVars, subVars>>

LibQuiet == ParseQuiet /\ DomQuiet /\ SubQuiet /\ HcsQuiet

\* workflow.go 853-892, 913-915: the topic id is parsed, the query built and
\* query.Subscribe called, which starts the stream or returns an error
SubscribeToTopicActivity ==
    /\ subPc = "call"
    /\ IF ~subscription.TopicIDOk
       THEN /\ subResult' = SubscribeResult(<<>>, "invalid topic ID")
            /\ subPc' = "returned"
            /\ UNCHANGED streamOpen
       ELSE \/ /\ streamOpen' = TRUE
               /\ subPc' = "subscribed"
               /\ UNCHANGED subResult
            \/ /\ subResult' = SubscribeResult(<<>>, "failed to subscribe to topic")
               /\ subPc' = "returned"
               /\ UNCHANGED streamOpen
    /\ UNCHANGED <<subscription, messages, messageCount, regVars, searchVars, runVars,
                   parseVars, domVars, hcsVars>>

\* workflow.go 892-911: the callback, for one message of the stream. The
\* test of the limit at lines 907-910 returns from the callback, which
\* returns right after it in any case; nothing unsubscribes.
OnTopicMessage ==
    /\ streamOpen
    /\ messageCount < MaxMessages
    /\ \E contents \in MessageContents :
          /\ messageCount' = messageCount + 1
          /\ messages' = Append(messages, TopicMessage(messageCount + 1, contents))
    /\ UNCHANGED <<subscription, subPc, streamOpen, subResult, regVars, searchVars,
                   runVars, parseVars, domVars, hcsVars>>

\* the stream of a query with an end time ends when that time is reached
EndTimeReached ==
    /\ streamOpen
    /\ subscription.EndTimeSet
    /\ streamOpen' = FALSE
    /\ UNCHANGED <<subscription, subPc, messages, messageCount, subResult, regVars,
                   searchVars, runVars, parseVars, domVars, hcsVars>>

\* workflow.go 917-918: query.Subscribe has returned its handle and the
\* activity returns the messages appended so far
SubscribeReturns ==
    /\ subPc = "subscribed"
    /\ subResult' = SubscribeResult(messages, "nil")
    /\ subPc' = "returned"
    /\ UNCHANGED <<subscription, streamOpen, messages, messageCount, regVars, searchVars,
                   runVars, parseVars, domVars, hcsVars>>

vars == <<regVars, searchVars, runVars, libVars>>

InitReg == InitRegWith(InitFiles)

LookupOrCreateZoneCollectionActivity ==
    /\ calls < MaxCalls
    /\ calls' = calls + 1
    /\ \E p \in Procs, zone \in Zones : LookupStep(p, zone)
    /\ UNCHANGED <<searchVars, runVars, libVars>>

CreateNFTCollectionActivity ==
    /\ \E p \in Procs, outcome \in CreateOutcomes : CreateStep(p, outcome)
    /\ UNCHANGED <<searchVars, runVars, libVars>>

SaveRegistry ==
    /\ \E p \in Procs, outcome \in WriteOutcomes : SaveStep(p, outcome)
    /\ UNCHANGED <<searchVars, runVars, libVars>>

ActivityReturns ==
    /\ \E p \in Procs : ReturnStep(p)
    /\ UNCHANGED <<searchVars, runVars, libVars>>

\* One call at a time: an activity starts only when no other is running.
LookupOrCreateZoneCollectionActivitySeq ==
    /\ calls < MaxCalls
    /\ \A q \in Procs : pc[q] = "idle"
    /\ calls' = calls + 1
    /\ \E p \in Procs, zone \in Zones : LookupStep(p, zone)
    /\ UNCHANGED <<searchVars, runVars, libVars>>

Next ==
    \/ LookupOrCreateZoneCollectionActivity
    \/ CreateNFTCollectionActivity
    \/ SaveRegistry
    \/ ActivityReturns

Init == InitReg /\ SearchQuiet /\ RunQuiet /\ LibQuiet

Spec == Init /\ [][Next]_vars

NextSeq ==
    \/ LookupOrCreateZoneCollectionActivitySeq
    \/ CreateNFTCollectionActivity
    \/ SaveRegistry
    \/ ActivityReturns

SpecSeq == Init /\ [][NextSeq]_vars

NextSearch == searchForDomainInCollection

InitSearchSpec == InitRegWith({FileAbsent}) /\ InitSearch /\ RunQuiet /\ LibQuiet

SpecSearch == InitSearchSpec /\ [][NextSearch]_vars

NextRun ==
    \/ IngestFileWorkflow
    \/ ReadFileActivity
    \/ ParseAndFilterEventsActivity
    \/ NextZone
    \/ ProvisionLookup
    \/ ProvisionCreate
    \/ ProvisionSave
    \/ ProvisionResult
    \/ MintNFTActivity

InitRunSpec == InitRegWith({FileAbsent}) /\ SearchQuiet /\ InitRun /\ LibQuiet

SpecRun == InitRunSpec /\ [][NextRun]_vars

\* NextRun can take a step: the last run has not returned yet
Running == ~(wf = "returned" /\ run + 1 \notin Runs)

\* The runs when every activity attempt terminates and the workflow, which
\* waits for nothing else, then takes its next step: weak fairness of
\* NextRun, with Running written for ENABLED <<NextRun>>_vars.
SpecRunFair ==
    InitRunSpec /\ [][NextRun]_vars /\ ([]<>(~Running) \/ []<><<NextRun>>_vars)

NextParse ==
    \/ ParseLines
    \/ GroupDomainsByZone

InitParseSpec ==
    InitRegWith({FileAbsent}) /\ SearchQuiet /\ RunQuiet /\ InitParse /\ DomQuiet
        /\ SubQuiet /\ HcsQuiet

SpecParse == InitParseSpec /\ [][NextParse]_vars

NextDomainName ==
    \/ CallNewDomainName
    \/ CallUnmarshalJSON
    \/ CallLabelValidate
    \/ ReadLabelAndParent

InitDomainSpec ==
    InitRegWith({FileAbsent}) /\ SearchQuiet /\ RunQuiet /\ ParseQuiet /\ InitDomain
        /\ SubQuiet /\ HcsQuiet

SpecDomain == InitDomainSpec /\ [][NextDomainName]_vars

NextSubscribe ==
    \/ SubscribeToTopicActivity
    \/ OnTopicMessage
    \/ EndTimeReached
    \/ SubscribeReturns

InitSubscribeSpec ==
    InitRegWith({FileAbsent}) /\ SearchQuiet /\ RunQuiet /\ ParseQuiet /\ DomQuiet
        /\ InitSubscribe /\ HcsQuiet

SpecSubscribe == InitSubscribeSpec /\ [][NextSubscribe]_vars

NextTopic == LookupOrCreateTopicActivity

InitTopicSpec ==
    InitRegWith({FileAbsent}) /\ SearchQuiet /\ RunQuiet /\ ParseQuiet /\ DomQuiet
        /\ SubQuiet /\ InitTopics /\ HCSIdle

SpecTopic == InitTopicSpec /\ [][NextTopic]_vars

NextHCS ==
    \/ HCSLookupOrCreateTopic
    \/ HCSSendMessage
    \/ HCSSubscribe
    \/ HCSCheckTopicRegistry

InitHCSSpec ==
    InitRegWith({FileAbsent}) /\ SearchQuiet /\ RunQuiet /\ ParseQuiet /\ DomQuiet
        /\ SubQuiet /\ InitHCS

SpecHCS == InitHCSSpec /\ [][NextHCS]_vars

(***************************************************************************)
(* Claims about the collection registry.                                   *)
(***************************************************************************)
Active(p) == pc[p] # "idle"

\* The activity found a stale entry for its zone in the registry it loaded.
FoundStale(p) ==
    /\ Active(p)
    /\ ~loadErr[p]
    /\ loadedFile[p].kind = "registry"
    /\ zoneArg[p] \in DOMAIN loadedFile[p].collections
    /\ ~tokenIDFromStringOk(loadedFile[p].collections[zoneArg[p]].TokenID)

OnLedger(h) == \E i \in 1..Len(ledger) : ledger[i] = h

\* C1 (as claimed): with calls made one at a time, once a call has created
\* and saved a collection for a zone, every later call for that zone that
\* returns a collection returns that same token id, and the registry file
\* never maps the zone to another token id.
C1_ZoneIdStable ==
    /\ \A p \in Procs :
            (pc[p] = "done" /\ ~ret[p].err /\ recorded[zoneArg[p]] # <<>>)
                => ret[p].collection.TokenID = recorded[zoneArg[p]]
    /\ \A z \in Zones :
            (recorded[z] # <<>> /\ z \in DOMAIN file.collections)
                => file.collections[z].TokenID = recorded[z]

\* C2: nothing serializes two calls for the same zone: whenever both have
\* created a collection, the ledger holds two different collections for the
\* zone, and the file, once the later save has succeeded, holds exactly the
\* later saver's registry, so only that saver's collection.
C2_SameZoneRaceDuplicates ==
    \A p, q \in Procs :
        (/\ p # q
         /\ zoneArg[p] = zoneArg[q]
         /\ pc[p] \in {"save", "done"} /\ pc[q] \in {"save", "done"}
         /\ newCollection[p] # NoHandle /\ newCollection[q] # NoHandle)
        => /\ newCollection[p].TokenID # newCollection[q].TokenID
           /\ OnLedger(newCollection[p]) /\ OnLedger(newCollection[q])
           /\ (saved[p] = "ok" /\ lastWriter = p)
                => /\ file = FileRegistry(registry[p])
                   /\ file.collections[zoneArg[p]] = newCollection[p]

\* C2 witness: both calls loaded a registry without the zone, both created
\* and both saved; the file holds the later one only.
C2_Witness ==
    \E p, q \in Procs :
        /\ p # q /\ zoneArg[p] = zoneArg[q]
        /\ pc[p] = "done" /\ pc[q] = "done"
        /\ ~loadErr[p] /\ ~loadErr[q]
        /\ zoneArg[p] \notin DOMAIN loadedFile[p].collections
        /\ zoneArg[q] \notin DOMAIN loadedFile[q].collections
        /\ saved[p] = "ok" /\ saved[q] = "ok" /\ lastWriter = p
        /\ OnLedger(newCollection[p]) /\ OnLedger(newCollection[q])
        /\ newCollection[p] # newCollection[q]
        /\ file.collections[zoneArg[p]] = newCollection[p]

\* C3: two overlapping calls for different zones, neither of which saw the
\* other's zone in the registry it works on, both saving successfully: the
\* file is the later saver's whole registry and lacks the other's new entry.
C3_DifferentZonesLostUpdate ==
    \A p, q \in Procs :
        (/\ p # q
         /\ pc[p] = "done" /\ pc[q] = "done"
         /\ zoneArg[p] # zoneArg[q]
         /\ saved[p] = "ok" /\ saved[q] = "ok"
         /\ zoneArg[q] \notin DOMAIN registry[p]
         /\ zoneArg[p] \notin DOMAIN registry[q]
         /\ lastWriter = p)
        => /\ file = FileRegistry(registry[p])
           /\ zoneArg[p] \in DOMAIN file.collections
           /\ file.collections[zoneArg[p]] = newCollection[p]
           /\ zoneArg[q] \notin DOMAIN file.collections

\* C3 witness: both collections are on the ledger, one entry is in the file.
C3_Witness ==
    \E p, q \in Procs :
        /\ p # q /\ zoneArg[p] # zoneArg[q]
        /\ pc[p] = "done" /\ pc[q] = "done"
        /\ saved[p] = "ok" /\ saved[q] = "ok" /\ lastWriter = p
        /\ OnLedger(newCollection[p]) /\ OnLedger(newCollection[q])
        /\ ~loadErr[p] /\ ~loadErr[q]
        /\ file.kind = "registry"
        /\ zoneArg[p] \in DOMAIN file.collections
        /\ zoneArg[q] \notin DOMAIN file.collections

ServedFirstRunItem ==
    /\ lastMint.collection.TokenID \in DOMAIN nfts
    /\ \E k \in 1..Min({Len(lastMint.responses), maxPagesToCheck}) :
        /\ lastMint.responses[k].kind = "page"
        /\ \A j \in 1..(k - 1) : lastMint.responses[j].next = "link"
        /\ \E i \in 1..Len(lastMint.responses[k].nfts) :
            LET item == nfts[lastMint.collection.TokenID]
                            [lastMint.responses[k].nfts[i].SerialNumber]
            IN  /\ item.Run = 1
                /\ NewDomainName(item.DomainName).name
                       = NewDomainName(lastMint.info.DomainName).name

\* C5: in the second run over the same log, a MintNFTActivity attempt whose
\* duplicate search is served, within the scanned pages, the item the first
\* run minted for the domain returns without submitting a mint transaction:
\* the metadata written at mint time is the label the search looks for.
C5_SecondRunSkipsMinted ==
    (lastMint.run = 2 /\ ServedFirstRunItem) => lastMint.result = "skipped"

\* C5 witness: the second run skipped a domain that the first run minted,
\* and that domain's item is still the only one in the zone's collection
\* for it.
C5_Witness ==
    /\ lastMint.run = 2
    /\ ServedFirstRunItem
    /\ lastMint.result = "skipped"
    /\ \A t \in DOMAIN nfts : \A i \in 1..Len(nfts[t]) : nfts[t][i].Run = 1

\* C6 (as claimed): when a call has ended, every change it made to the
\* registry in memory is in the file.
C6_MutationsPersisted ==
    \A p \in Procs :
        (pc[p] = "done" /\ registry[p] # RegistryAfterLoad(loadedFile[p]))
            => file = FileRegistry(registry[p])

\* C7 (as claimed): a call whose load failed ends with an error, has created
\* no collection and has not written the file.
C7_LoadErrorFailsStep ==
    \A p \in Procs :
        loadErr[p] => /\ pc[p] = "done" /\ ret[p].err
                      /\ newCollection[p] = NoHandle
                      /\ saved[p] = "none"

\* C8: a call that found no registry file got an empty registry and no
\* error; it goes on to create the collection, and what it then saves is a
\* registry whose only entry is its zone.
C8_AbsentFileIsEmptyRegistry ==
    \A p \in Procs :
        (Active(p) /\ loadedFile[p].kind = "absent")
        => /\ ~loadErr[p]
           /\ pc[p] = "create" => registry[p] = EmptyCollections
           /\ pc[p] = "done" => (ret[p].err \/ newCollection[p] # NoHandle)
           /\ newCollection[p] # NoHandle
                => /\ OnLedger(newCollection[p])
                   /\ DOMAIN registry[p] = {zoneArg[p]}
                   /\ registry[p][zoneArg[p]] = newCollection[p]
           /\ (saved[p] = "ok" /\ lastWriter = p)
                => /\ file.kind = "registry"
                   /\ DOMAIN file.collections = {zoneArg[p]}
                   /\ file.collections[zoneArg[p]] = newCollection[p]
                   /\ ret[p] = [collection |-> newCollection[p], err |-> FALSE]

\* C8 witness: cold start, collection created and saved.
C8_Witness ==
    \E p \in Procs :
        /\ pc[p] = "done" /\ loadedFile[p].kind = "absent"
        /\ saved[p] = "ok" /\ lastWriter = p
        /\ DOMAIN file.collections = {zoneArg[p]}
        /\ OnLedger(file.collections[zoneArg[p]])

\* C9: a call that found a stale entry for its zone has dropped it from its
\* registry and never returns it: it goes on to create a collection, and
\* what it then saves maps the zone to the new collection, whose token id
\* differs from the stale one.
C9_StaleEntryReplaced ==
    \A p \in Procs :
        FoundStale(p)
        => LET stale == loadedFile[p].collections[zoneArg[p]]
           IN  /\ pc[p] = "create" => zoneArg[p] \notin DOMAIN registry[p]
               /\ pc[p] = "done" => (ret[p].err \/ newCollection[p] # NoHandle)
               /\ ret[p].collection # stale
               /\ newCollection[p] # NoHandle
                    => /\ OnLedger(newCollection[p])
                       /\ registry[p][zoneArg[p]] = newCollection[p]
                       /\ newCollection[p].TokenID # stale.TokenID
               /\ (saved[p] = "ok" /\ lastWriter = p)
                    => /\ file.kind = "registry"
                       /\ file.collections[zoneArg[p]] = newCollection[p]
                       /\ file.collections[zoneArg[p]].TokenID # stale.TokenID

\* C9 witness: the stale entry has been replaced in the file.
C9_Witness ==
    \E p \in Procs :
        /\ FoundStale(p) /\ pc[p] = "done"
        /\ saved[p] = "ok" /\ lastWriter = p
        /\ file.collections[zoneArg[p]] = newCollection[p]
        /\ OnLedger(newCollection[p])

(***************************************************************************)
(* Claims about the duplicate search.                                      *)
(***************************************************************************)
\* C10: the search requests at most 50 pages: it is over once 50 pages have
\* been requested; and when every response was a page without a match, it
\* returns "not found" and no error, also when the last page carried a
\* next-page link.
C10_SearchBounded ==
    /\ fetches <= 50
    /\ fetches = 50 => search.done
    /\ (search.done /\ noMatchYet) => (~search.found /\ ~search.err /\ search.nft = NoNFT)

\* C10 witness: 50 pages without a match, the last one with a next link.
C10_Witness ==
    /\ search.done /\ fetches = 50 /\ noMatchYet
    /\ lastResponse.next = "link"
    /\ ~search.found /\ ~search.err


\* C11: as soon as a fetched page holds a matching item the search has
\* returned found with the first matching item of that page, and that page
\* is the last one fetched; a match on page 1 means exactly one fetch.
C11_FirstMatchEndsSearch ==
    matchPage # 0 =>
        /\ search.done /\ search.found /\ ~search.err
        /\ fetches = matchPage
        /\ LET hits == MatchesIn(lastResponse, expectedLabel)
           IN  /\ hits # {}
               /\ search.nft = lastResponse.nfts[Min(hits)]

\* C11 witness: after pages without a match, a page with two matching
\* items ended the search with the first of them.
C11_Witness ==
    /\ matchPage > 1 /\ fetches = matchPage
    /\ Cardinality(MatchesIn(lastResponse, expectedLabel)) = 2
    /\ search.found /\ search.nft = lastResponse.nfts[1]

\* C12: a search that returned without an error has found an item if and
\* only if some item on the pages it scanned is the label once trimmed, or
\* is base64 decoding to the label; metadata that is not base64 counts only
\* as it is.
C12_FoundIffMatch ==
    (search.done /\ ~search.err) => (search.found <=> matchPage # 0)

\* C12 witness: found through metadata that is not base64 and is the label
\* once trimmed.
C12_Witness ==
    /\ search.done /\ search.found /\ ~search.err
    /\ Base64Decode(TrimSpace(search.nft.Metadata)).err
    /\ TrimSpace(search.nft.Metadata) = expectedLabel

\* C13: a 404 response, to the first fetch or to a later one, ends the
\* search with "not found" and no error.
C13_NotFoundStatusIsNoError ==
    lastResponse.kind = "status404" =>
        /\ search.done /\ ~search.found /\ ~search.err
        /\ search.nft = NoNFT

\* C13 witness: a 404 to a later page.
C13_Witness ==
    /\ lastResponse.kind = "status404" /\ fetches > 1
    /\ search.done /\ ~search.found /\ ~search.err

\* The last fetch failed otherwise than by a 404: the request failed, the
\* status was neither 200 nor 404, the body did not decode, or the link to
\* the next page, which the search had to follow, did not parse.
FetchFailed ==
    \/ lastResponse.kind \in {"transportErr", "status500", "badBody"}
    \/ /\ lastResponse.kind = "page"
       /\ lastResponse.next = "badLink"
       /\ MatchesIn(lastResponse, expectedLabel) = {}
       /\ fetches < maxPagesToCheck

\* C14 (as claimed): every such failure makes the search return an error,
\* never "not found".
C14_FailuresAreErrors ==
    FetchFailed => (search.done /\ search.err /\ ~search.found)


\* the steps of the run in progress that are of the kind and for the zone
StepsOf(kind, zone) ==
    {k \in 1..Len(steps) : steps[k].kind = kind /\ steps[k].zone = zone}

\* the zone's provisioning step failed in the run in progress
ProvisionFailed(zone) ==
    \E k \in StepsOf("provision", zone) : steps[k].outcome = "failed"

\* C15: a ReadFileActivity or ParseAndFilterEventsActivity step that failed
\* is the last step of its run: the workflow has returned that step's
\* error, and the run has executed no provisioning and no mint step.
C15_ReadParseFailureIsFatal ==
    /\ \A k \in 1..Len(steps) :
        (steps[k].kind \in {"read", "parse"} /\ steps[k].outcome = "failed") =>
            /\ k = Len(steps)
            /\ wf = "returned"
            /\ returned[run] = (IF steps[k].kind = "read" THEN "readErr" ELSE "parseErr")
            /\ \A j \in 1..Len(steps) : steps[j].kind \in {"read", "parse"}
    /\ (run \in Runs /\ returned[run] \in {"readErr", "parseErr"}) =>
            (steps # <<>> /\ steps[Len(steps)].outcome = "failed")

\* C15 witness: the file was read, parsing failed three times, and the run
\* returned the error after those two steps.
C15_Witness ==
    /\ wf = "returned" /\ returned[run] = "parseErr"
    /\ Len(steps) = 2
    /\ steps[1].kind = "read" /\ steps[1].outcome = "ok"
    /\ steps[2].kind = "parse" /\ steps[2].outcome = "failed"

\* C16: a zone whose provisioning step failed gets no mint step (and with
\* it no duplicate search); a run that returned nil has provisioned every
\* zone once, and has executed one mint step for each domain of every zone
\* whose provisioning did not fail.
C16_ProvisionFailureSkipsOnlyItsZone ==
    /\ \A z \in ZoneKeys(records) : ProvisionFailed(z) => StepsOf("mint", z) = {}
    /\ (wf = "returned" /\ returned[run] = "nil") =>
        \A z \in ZoneKeys(records) :
            /\ Cardinality(StepsOf("provision", z)) = 1
            /\ ~ProvisionFailed(z) =>
                /\ {steps[k].idx : k \in StepsOf("mint", z)}
                       = 1..Len(ZoneGroup(records, z))
                /\ Cardinality(StepsOf("mint", z)) = Len(ZoneGroup(records, z))

\* C16 witness: a run in which the provisioning of one zone failed and a
\* zone iterated after it was provisioned and had its domain minted.
C16_Witness ==
    /\ wf = "returned" /\ returned[run] = "nil"
    /\ \E k, j \in 1..Len(steps) :
        /\ k < j
        /\ steps[k].kind = "provision" /\ steps[k].outcome = "failed"
        /\ steps[j].kind = "mint" /\ steps[j].outcome = "ok"
        /\ steps[j].zone # steps[k].zone
    /\ lastMint.run = run /\ lastMint.result = "minted"

\* C17: a mint step that failed is followed by the mint step of the next
\* domain of its zone, or, after the zone's last domain, by the next zone;
\* it never ends the run with an error.
C17_MintFailureSkipsOnlyItsDomain ==
    /\ \A k \in 1..Len(steps) :
        (steps[k].kind = "mint" /\ steps[k].outcome = "failed") =>
            LET z    == steps[k].zone
                i    == steps[k].idx
                more == i < Len(ZoneGroup(records, z))
            IN  IF k < Len(steps)
                THEN IF more
                     THEN /\ steps[k + 1].kind = "mint"
                          /\ steps[k + 1].zone = z
                          /\ steps[k + 1].idx = i + 1
                     ELSE /\ steps[k + 1].kind = "provision"
                          /\ steps[k + 1].zone # z
                ELSE IF more
                     THEN wf = "mint" /\ curZone = z /\ domIdx = i + 1
                     ELSE \/ wf \in {"zones", "provision"}
                          \/ wf = "returned" /\ returned[run] = "nil" /\ zonesLeft = {}
    /\ (wf = "returned" /\ returned[run] = "nil") =>
        \A z \in ZoneKeys(records) : StepsOf("provision", z) # {}

\* C17 witness: the first domain of a zone failed to mint, the zone's next
\* domain was minted, and the zone after it was provisioned.
C17_Witness ==
    \E k \in 1..Len(steps) :
        /\ k + 2 <= Len(steps)
        /\ steps[k].kind = "mint" /\ steps[k].outcome = "failed"
        /\ steps[k + 1].kind = "mint" /\ steps[k + 1].outcome = "ok"
        /\ steps[k + 1].zone = steps[k].zone
        /\ steps[k + 2].kind = "provision" /\ steps[k + 2].outcome = "ok"

\* the duplicate search of the last MintNFTActivity attempt failed
SearchErrored ==
    /\ lastMint.responses # <<>>
    /\ lastMint.responses[1].kind = "transportErr"

\* C18: a MintNFTActivity attempt whose duplicate search returned a
\* transport error did not skip, and ended as its mint transaction did:
\* nil when it was confirmed, an error when it failed to execute or its
\* receipt was lost.
C18_SearchErrorFailsOpen ==
    SearchErrored =>
        /\ lastMint.result # "skipped"
        /\ lastMint.outcome = "ok" => lastMint.result = "minted"
        /\ lastMint.outcome = "execFail" => lastMint.result = "failed"
        /\ lastMint.outcome = "receiptFail" => lastMint.result = "mintedFailed"

\* C18 witness: the search failed and the domain was minted.
C18_Witness ==
    /\ SearchErrored
    /\ lastMint.outcome = "ok" /\ lastMint.result = "minted"
    /\ \E t \in DOMAIN nfts : \E i \in 1..Len(nfts[t]) :
        nfts[t][i].DomainName = lastMint.info.DomainName

\* C19: every step is attempted at most 3 times, waits 1 and then 2 time
\* units between its attempts (never more than 60), fails only after a
\* third failed attempt, and is not attempted again once it succeeded.
C19_RetryEnvelope ==
    \A k \in 1..Len(steps) :
        LET st == steps[k]
        IN  /\ st.attempts \in 1..3
            /\ Len(st.waits) <= 2
            /\ st.waits = SubSeq(<<1, 2>>, 1, Len(st.waits))
            /\ \A i \in 1..Len(st.waits) : st.waits[i] <= 60
            /\ st.outcome = "failed" => (st.attempts = 3 /\ st.waits = <<1, 2>>)
            /\ st.outcome = "ok" => Len(st.waits) = st.attempts - 1
            /\ st.outcome = "running" => Len(st.waits) \in {st.attempts - 1, st.attempts}

\* C19 witness: one step failed after three attempts, another succeeded on
\* its second attempt.
C19_Witness ==
    /\ \E k \in 1..Len(steps) :
        steps[k].outcome = "failed" /\ steps[k].attempts = 3 /\ steps[k].waits = <<1, 2>>
    /\ \E k \in 1..Len(steps) :
        steps[k].outcome = "ok" /\ steps[k].attempts = 2 /\ steps[k].waits = <<1>>

\* C20: only the last step of a run can be in progress; a mint step comes
\* right after the mint step of the previous domain of its zone, the first
\* one right after the zone's provisioning; a provisioning step comes after
\* the parse step, after a failed provisioning, or after the mint step of
\* the last domain of another zone.
C20_OneStepAtATime ==
    /\ \A k \in 1..(Len(steps) - 1) : steps[k].outcome # "running"
    /\ pc[Worker] # "idle" =>
        /\ steps # <<>>
        /\ steps[Len(steps)].kind = "provision"
        /\ steps[Len(steps)].outcome = "running"
    /\ \A k \in 1..Len(steps) :
        /\ steps[k].kind = "mint" =>
            /\ k > 1
            /\ steps[k - 1].zone = steps[k].zone
            /\ IF steps[k].idx = 1
               THEN steps[k - 1].kind = "provision" /\ steps[k - 1].outcome = "ok"
               ELSE steps[k - 1].kind = "mint" /\ steps[k - 1].idx = steps[k].idx - 1
        /\ steps[k].kind = "provision" =>
            /\ k > 1
            /\ \/ steps[k - 1].kind = "parse"
               \/ steps[k - 1].kind = "provision" /\ steps[k - 1].outcome = "failed"
               \/ /\ steps[k - 1].kind = "mint"
                  /\ steps[k - 1].zone # steps[k].zone
                  /\ steps[k - 1].idx = Len(ZoneGroup(records, steps[k - 1].zone))

\* C20 witness: the second zone's provisioning is in progress after both
\* domains of the first zone had their mint step.
C20_Witness ==
    /\ Len(steps) = 6
    /\ steps[4].kind = "mint" /\ steps[5].kind = "mint" /\ steps[5].idx = 2
    /\ steps[6].kind = "provision" /\ steps[6].outcome = "running"
    /\ pc[Worker] # "idle"


\* the run in progress has parsed its file
ParseSucceeded ==
    \E k \in 1..Len(steps) : steps[k].kind = "parse" /\ steps[k].outcome = "ok"

\* C21: no run returns the error of a provisioning or of a mint step, and
\* a run whose read and parse steps succeeded eventually returns nil,
\* whichever provisioning, duplicate-search and mint attempts fail.
C21_RunCompletes ==
    /\ [](\A r \in Runs : returned[r] \in {"pending", "nil", "readErr", "parseErr"})
    /\ \A r \in Runs : (run = r /\ ParseSucceeded) ~> (returned[r] = "nil")

\* C21 witness: a run returned nil although the provisioning of one zone
\* and the mint of a domain of another zone failed.
C21_Witness ==
    /\ wf = "returned" /\ returned[run] = "nil"
    /\ \E k \in 1..Len(steps) : steps[k].kind = "provision" /\ steps[k].outcome = "failed"
    /\ \E k \in 1..Len(steps) : steps[k].kind = "mint" /\ steps[k].outcome = "failed"

(***************************************************************************)
(* Claims about the parse activity and the grouping by zone.               *)
(***************************************************************************)
\* a line that begins with the event key and decodes once wrapped in braces
IsRecordLine(line) ==
    HasPrefix(line, EventKey) /\ Unmarshal(WrapInBraces(line)).err = "nil"

RecordLines(ls) == SelectSeq(ls, IsRecordLine)

\* the domain names, registrars and zones of the event lines
EventDomains == {<<97, 98, 46, 112>>, <<99, 100, 46, 112>>}
EventRegistrars == {<<114, 49>>, <<114, 50>>}
EventZones == {<<97, 112, 112>>, <<65, 112, 112>>, <<98, 117, 105, 108, 100>>}

Parsed == parsePc \in {"group", "grouped", "returned"}

Undecodable(line) ==
    HasPrefix(line, EventKey) /\ Unmarshal(WrapInBraces(line)).err # "nil"

\* C23: the activity returns no error, and the record of a line that comes
\* after an undecodable line is in its output.
C23_ParseNeverFails ==
    /\ parsePc # "returned"
    /\ Parsed =>
          /\ parseErr = "nil"
          /\ \A i, j \in 1..Len(lines) :
                 i < j /\ Undecodable(lines[i]) /\ IsRecordLine(lines[j]) =>
                     \E k \in 1..Len(mintingInfos) :
                         mintingInfos[k].FullEventJSON = WrapInBraces(lines[j])

\* a cut line, a line with a number for the name, then an event line
C23_Witness ==
    /\ parsePc = "group"
    /\ parseErr = "nil"
    /\ Len(lines) = 3
    /\ lines[1] = TruncatedLine
    /\ lines[2] = MistypedLine
    /\ lines[3] \in EventLines
    /\ Len(mintingInfos) = 1

\* the records of zone z, in the order of the activity's output
RecordsOfZone(z) == SelectSeq(mintingInfos, LAMBDA info : info.Zone = z)

\* C24: the groups are keyed by the zones of the records, byte for byte,
\* and the group of a zone is the sequence of the records of that zone in
\* their input order: no record lost, none twice, none in another group.
C24_GroupsPartition ==
    parsePc = "grouped" =>
        /\ DOMAIN zoneGroups = {mintingInfos[i].Zone : i \in 1..Len(mintingInfos)}
        /\ \A z \in DOMAIN zoneGroups : zoneGroups[z] = RecordsOfZone(z)

\* zone app with two different records around one of zone App
C24_Witness ==
    /\ parsePc = "grouped"
    /\ Len(mintingInfos) = 3
    /\ mintingInfos[1].Zone = <<97, 112, 112>>
    /\ mintingInfos[2].Zone = <<65, 112, 112>>
    /\ mintingInfos[3].Zone = <<97, 112, 112>>
    /\ mintingInfos[1] # mintingInfos[3]
    /\ zoneGroups[<<97, 112, 112>>] = <<mintingInfos[1], mintingInfos[3]>>

(***************************************************************************)
(* Claims about pkg/domain.                                                *)
(***************************************************************************)
\* a DomainName value exists
Made == domPc \in {"made", "read"}

\* the lengths of the dot-separated parts of s
PartLengths(s) ==
    LET cuts == {0, Len(s) + 1} \cup {i \in 1..Len(s) : s[i] = 46}
    IN  {b - a - 1 : <<a, b>> \in {c \in cuts \X cuts :
            c[1] < c[2] /\ \A k \in cuts : ~(c[1] < k /\ k < c[2])}}

\* C25: a name NewDomainName accepted has 1 to 253 bytes, each of its
\* labels has 1 to 63, and it neither starts nor ends with a dot nor holds
\* two dots in a row.
C25_AcceptedNameLengths ==
    (domOp = "new" /\ Made) =>
        /\ Len(dnValue) \in 1..253
        /\ \A n \in PartLengths(dnValue) : n \in 1..63
        /\ dnValue[1] # 46 /\ dnValue[Len(dnValue)] # 46
        /\ \A i \in 1..(Len(dnValue) - 1) : ~(dnValue[i] = 46 /\ dnValue[i + 1] = 46)

\* a name of 253 bytes with a label of 63 is accepted
C25_Witness ==
    /\ domOp = "new" /\ domPc = "made"
    /\ Len(dnValue) = 253
    /\ 63 \in PartLengths(dnValue)

\* the five checks, as the reasons to refuse a label
LengthFails(t) == Len(t) < 1 \/ Len(t) > 63
DashFails(t) == t[1] = 45 \/ t[Len(t)] = 45
StartsWithACE(t) == Len(t) >= 4 /\ t[1] = 120 /\ t[2] = 110 /\ t[3] = 45 /\ t[4] = 45
DoubleDashFails(t) == Len(t) > 3 /\ t[3] = 45 /\ t[4] = 45 /\ ~StartsWithACE(t)
IDNFails(t) == StartsWithACE(t) /\ ~IDNAToUnicodeOk(t)
CharFails(t) ==
    \E i \in 1..Len(t) : ~(t[i] \in 48..57 \/ t[i] \in 65..90 \/ t[i] \in 97..122 \/ t[i] = 45)

FirstFailingCheck(t) ==
    IF LengthFails(t) THEN "ErrInvalidLabelLength"
    ELSE IF DashFails(t) THEN "ErrInvalidLabelDash"
    ELSE IF DoubleDashFails(t) THEN "ErrInvalidLabelDoubleDash"
    ELSE IF IDNFails(t) THEN "ErrInvalidLabelIDN"
    ELSE IF CharFails(t) THEN "ErrLabelContainsInvalidCharacter"
    ELSE "nil"

C27_OnlyValidatedNames ==
    Made => DomainNameValidate(dnValue) = "nil"

\* C28: Label() is the name up to its first dot and ParentDomain() what
\* follows that dot, empty for a name without a dot; with a dot, the two
\* joined by a dot are the name.
C28_LabelAndParent ==
    domPc = "read" =>
        LET dots == {i \in 1..Len(dnValue) : dnValue[i] = 46}
        IN  IF dots = {}
            THEN dnLabel = dnValue /\ dnParent = <<>>
            ELSE /\ dnLabel = SubSeq(dnValue, 1, Min(dots) - 1)
                 /\ dnParent = SubSeq(dnValue, Min(dots) + 1, Len(dnValue))
                 /\ dnLabel \o <<46>> \o dnParent = dnValue

\* "-x..Q": label "-x", parent ".Q"
C28_Witness ==
    /\ domPc = "read"
    /\ dnValue = <<45, 120, 46, 46, 81>>
    /\ dnLabel = <<45, 120>>
    /\ dnParent = <<46, 81>>

\* each run of white space replaced by one space
CollapseWhitespace(s) ==
    LET kept == SelectSeq([i \in 1..Len(s) |-> i],
                          LAMBDA i : ~IsSpace(s[i]) \/ i = Len(s) \/ ~IsSpace(s[i + 1]))
    IN  [k \in 1..Len(kept) |-> IF IsSpace(s[kept[k]]) THEN 32 ELSE s[kept[k]]]

\* the steps of the claim, in its order
StepsInOrder(raw) ==
    TrimDots(ToLower(TrimSpace(RemoveTrailingDot(CollapseWhitespace(
        ReplaceAll(ReplaceAll(ReplaceAll(raw, 10, 32), 9, 32), 13, 32))))))

StepsInOrderTrimmed(raw) ==
    TrimDots(ToLower(TrimSpace(RemoveTrailingDot(TrimSpace(CollapseWhitespace(
        ReplaceAll(ReplaceAll(ReplaceAll(raw, 10, 32), 9, 32), 13, 32)))))))

C30_AtMostMaxItems ==
    subPc = "returned" =>
        Len(subResult.messages) <= EffectiveLimit(subscription.Limit)


(***************************************************************************)
(* Claims about the topic registry and HCSDemoWorkflow.                    *)
(***************************************************************************)
\* the registry in the file holds an entry for the name
TopicRegistered(f, n) ==
    /\ ~loadTopicRegistry(f).err
    /\ n \in DOMAIN loadTopicRegistry(f).topics

\* the topics on the ledger that were created for the name
CreatedFor(l, n) == {i \in 1..Len(l) : l[i].TopicName = n}

\* C31: a LookupOrCreateTopicActivity call for a name the persisted registry
\* holds returns the stored handle and creates no topic; a call that
\* succeeds for a name it does not hold has created exactly one topic and
\* the file then maps the name to the returned handle; over calls made one
\* after another at most one topic is created per name and all calls for a
\* name return the same topic id.
C31_OneTopicPerName ==
    /\ lastTopicCall.name # "" =>
          LET n      == lastTopicCall.name
              before == lastTopicCall.file
              made   == Len(topics) - Len(lastTopicCall.topics)
          IN  IF TopicRegistered(before, n)
              THEN /\ topicRet = [info |-> before.topics[n], err |-> FALSE]
                   /\ made = 0
              ELSE ~topicRet.err =>
                      /\ made = 1
                      /\ TopicRegistered(topicFile, n)
                      /\ topicFile.topics[n] = topicRet.info
    /\ \A n \in TopicNames :
          /\ Cardinality(CreatedFor(topics, n)) <= 1
          /\ Cardinality(topicIDs[n]) <= 1


\* the steps HCSDemoWorkflow has executed: activity and message index
HCSKinds == [i \in 1..Len(hcsSteps) |-> <<hcsSteps[i].kind, hcsSteps[i].idx>>]

\* the steps of a run whose topic step succeeded
FullHCSRun ==
    <<<<"lookup", 0>>, <<"send", 1>>, <<"send", 2>>, <<"send", 3>>, <<"send", 4>>,
      <<"subscribe", 0>>, <<"check", 0>>>>

\* C32: HCSDemoWorkflow returns an error only when its
\* LookupOrCreateTopicActivity step failed; when that step succeeded the
\* workflow returns nil after a send step for each of the four messages, in
\* order, a subscribe step and a registry-status step, whichever of them
\* failed, and sentMessages holds one entry per send step that succeeded.
C32_OnlyTopicStepIsFatal ==
    hcsReturned # "pending" =>
        /\ hcsReturned # "nil" =>
              /\ hcsSteps[1].kind = "lookup"
              /\ hcsSteps[1].outcome = "failed"
        /\ hcsSteps[1].outcome = "ok" =>
              /\ hcsReturned = "nil"
              /\ HCSKinds = FullHCSRun
              /\ Len(sentMessages) =
                    Cardinality({i \in 1..Len(hcsSteps) :
                                    /\ hcsSteps[i].kind = "send"
                                    /\ hcsSteps[i].outcome = "ok"})

\* a run returned nil in which the second message was given up after three
\* attempts, the third was sent, and the subscription failed three times
C32_Witness ==
    /\ hcsReturned = "nil"
    /\ Len(hcsSteps) = 7
    /\ hcsSteps[3].outcome = "failed"
    /\ hcsSteps[3].attempts = MaximumAttempts
    /\ hcsSteps[4].outcome = "ok"
    /\ hcsSteps[6].outcome = "failed"
    /\ hcsSteps[7].outcome = "failed"


(***************************************************************************)
(* Claims about the order of the steps and the duplicate check.            *)
(***************************************************************************)
\* the last MintNFTActivity attempt belongs to the run in progress
MintInThisRun == lastMint.run = run /\ run \in Runs

LastCheck == isDomainAlreadyMinted(lastMint.info.DomainName, lastMint.responses)

\* the step of the last MintNFTActivity attempt
LastMintStep == steps[Max({i \in 1..Len(steps) : steps[i].kind = "mint"})]

\* C34: an attempt of MintNFTActivity whose duplicate search reports found
\* submits no mint transaction and returns nil; its step is over with
\* success in that attempt, as after a completed mint, and is not retried.
C34_FoundSkipsMint ==
    (MintInThisRun /\ LastCheck.found) =>
        /\ lastMint.result = "skipped"
        /\ lastMint.trace = <<"search">>
        /\ LastMintStep.zone = lastMint.info.Zone
        /\ LastMintStep.outcome = "ok"
        /\ Len(LastMintStep.waits) = LastMintStep.attempts - 1

\* in a first run the record "AB.p." is found as the minted "ab.p" and its
\* step ends with success in its first attempt
C34_Witness ==
    /\ MintInThisRun
    /\ run = 1
    /\ LastCheck.found
    /\ lastMint.result = "skipped"
    /\ LastMintStep.outcome = "ok"
    /\ LastMintStep.attempts = 1
    /\ LastMintStep.idx = 2


\* The last duplicate search was served, within the pages it scans, an NFT
\* minted for another domain name with the same leftmost label.
ServedSameLabelItem ==
    /\ lastMint.collection.TokenID \in DOMAIN nfts
    /\ NewDomainName(lastMint.info.DomainName).err = "nil"
    /\ \E k \in 1..Min({Len(lastMint.responses), maxPagesToCheck}) :
        /\ lastMint.responses[k].kind = "page"
        /\ \A j \in 1..(k - 1) : lastMint.responses[j].next = "link"
        /\ \E i \in 1..Len(lastMint.responses[k].nfts) :
            LET item  == nfts[lastMint.collection.TokenID]
                             [lastMint.responses[k].nfts[i].SerialNumber]
                other == NewDomainName(item.DomainName).name
                mine  == NewDomainName(lastMint.info.DomainName).name
            IN  /\ other # mine
                /\ DomainLabel(other) = DomainLabel(mine)

\* C35: a MintNFTActivity attempt for a domain name whose duplicate search
\* is served, within the scanned pages of the zone's collection, the item
\* of a different domain name with the same leftmost label skips: it returns
\* nil and submits no mint transaction.
C35_SameLabelIsDuplicate ==
    (lastMint.run \in Runs /\ ServedSameLabelItem) =>
        /\ lastMint.result = "skipped"
        /\ lastMint.trace = <<"search">>

\* "ab.q" was skipped because of the item of "ab.p", and the collection
\* holds no item minted for "ab.q"
C35_Witness ==
    /\ lastMint.run \in Runs
    /\ ServedSameLabelItem
    /\ lastMint.result = "skipped"
    /\ lastMint.info.DomainName = <<97, 98, 46, 113>>
    /\ \A i \in 1..Len(nfts[lastMint.collection.TokenID]) :
          nfts[lastMint.collection.TokenID][i].DomainName = <<97, 98, 46, 112>>


\* NewDomainName rejects the record's domain name
InvalidName(info) == NewDomainName(info.DomainName).err # "nil"

\* the record of a mint step
RecordOf(step) == ZoneGroup(records, step.zone)[step.idx]

\* C36: a record whose domain name NewDomainName rejects is never minted:
\* every MintNFTActivity attempt for it gets an error from the duplicate
\* check, goes on, and returns an error without a mint transaction; its
\* step fails after MaximumAttempts attempts, the step after it is the mint
\* of the zone's next domain or the provisioning of another zone, and the
\* run does not return the step's error.
C36_InvalidNameNeverMinted ==
    /\ \A t \in DOMAIN nfts : \A i \in 1..Len(nfts[t]) :
          NewDomainName(nfts[t][i].DomainName).err = "nil"
    /\ (lastMint.run \in Runs /\ InvalidName(lastMint.info)) =>
          /\ LastCheck.err
          /\ lastMint.result = "failed"
          /\ lastMint.trace = <<>>
    /\ \A i \in 1..Len(steps) :
          (steps[i].kind = "mint" /\ InvalidName(RecordOf(steps[i]))) =>
              /\ steps[i].outcome \in {"running", "failed"}
              /\ steps[i].outcome = "failed" =>
                    /\ steps[i].attempts = MaximumAttempts
                    /\ returned[run] \in {"pending", "nil"}
                    /\ i < Len(steps) =>
                          \/ /\ steps[i + 1].kind = "mint"
                             /\ steps[i + 1].zone = steps[i].zone
                             /\ steps[i + 1].idx = steps[i].idx + 1
                          \/ /\ steps[i + 1].kind = "provision"
                             /\ steps[i + 1].zone # steps[i].zone

\* the step of "-x.q" failed after three attempts and the zone's next
\* domain was minted
C36_Witness ==
    /\ Len(steps) >= 5
    /\ steps[4].kind = "mint"
    /\ InvalidName(RecordOf(steps[4]))
    /\ steps[4].outcome = "failed"
    /\ steps[4].attempts = MaximumAttempts
    /\ steps[5].kind = "mint"
    /\ steps[5].outcome = "ok"
    /\ lastMint.result = "minted"
    /\ lastMint.info = RecordOf(steps[5])


(***************************************************************************)
(* Claims about the effects of one provisioning call and of one mint step. *)
(***************************************************************************)
\* the entry the registry file holds for the zone, NoHandle without one
EntryOf(f, z) ==
    IF f.kind = "registry" /\ z \in DOMAIN f.collections THEN f.collections[z]
    ELSE NoHandle

\* C37: while a LookupOrCreateZoneCollectionActivity call for a zone runs
\* and when it has returned, the registry file holds for every other zone
\* the entry it held when the call loaded the registry: none added, changed
\* or removed.
C37_OtherZonesUntouched ==
    \A p \in Procs :
        Active(p) =>
            \A z \in Zones \ {zoneArg[p]} :
                EntryOf(file, z) = EntryOf(loadedFile[p], z)


\* the call of p went on to create a collection and the creation failed
CreationFailed(p) ==
    /\ pc[p] = "done"
    /\ ~RegistryHit(RegistryAfterLoad(loadedFile[p]), zoneArg[p])
    /\ newCollection[p] = NoHandle

\* C38: a LookupOrCreateZoneCollectionActivity call whose collection
\* creation failed returns the error with an empty ZoneCollectionInfo and
\* has not written the registry file, which is as the call loaded it; a
\* stale entry the call deleted from the registry in memory is still in the
\* file.
C38_FailedCreationLeavesFile ==
    \A p \in Procs :
        CreationFailed(p) =>
            /\ ret[p] = [collection |-> NoHandle, err |-> TRUE]
            /\ saved[p] = "none"
            /\ file = loadedFile[p]
            /\ FoundStale(p) =>
                  /\ zoneArg[p] \notin DOMAIN registry[p]
                  /\ file.kind = "registry"
                  /\ zoneArg[p] \in DOMAIN file.collections
                  /\ file.collections[zoneArg[p]] = loadedFile[p].collections[zoneArg[p]]

\* the creation failed in a call that had deleted its zone's stale entry
C38_Witness ==
    \E p \in Procs :
        /\ CreationFailed(p)
        /\ FoundStale(p)
        /\ ret[p].err
        /\ zoneArg[p] \in DOMAIN file.collections
        /\ zoneArg[p] \notin DOMAIN registry[p]


\* the items one run minted for a record, by serial number
ItemsOfStep(t, domainName, r) ==
    {i \in 1..Len(nfts[t]) :
        nfts[t][i].DomainName = domainName /\ nfts[t][i].Run = r}

\* C39: the attempts of one mint step (one record in one run) mint at most
\* one item between them, also when an attempt's transaction was committed
\* while its receipt was lost and the step was retried.
C39_AtMostOneItemPerStep ==
    \A t \in DOMAIN nfts : \A i \in 1..Len(nfts[t]) :
        Cardinality(ItemsOfStep(t, nfts[t][i].DomainName, nfts[t][i].Run)) <= 1


(***************************************************************************)
(* Claims about the iteration order of the zones.                          *)
(***************************************************************************)
\* the steps of the run in progress: activity, zone, index of the domain
StepArgs == [k \in 1..Len(steps) |-> <<steps[k].kind, steps[k].zone, steps[k].idx>>]

\* The steps of a zone, given how its provisioning ended: the provisioning,
\* and after a success the mint of each domain of the zone in log order.
ZoneSteps(z) ==
    <<<<"provision", z, 0>>>> \o
    (IF ProvisionFailed(z) THEN <<>>
     ELSE [i \in 1..Len(ZoneGroup(records, z)) |-> <<"mint", z, i>>])

\* the steps of the zones iterated in the given order
RECURSIVE StepsForOrder(_)
StepsForOrder(order) ==
    IF order = <<>> THEN <<>>
    ELSE ZoneSteps(Head(order)) \o StepsForOrder(Tail(order))

\* the orders in which the range loop may visit the keys of zoneGroups
ZoneOrders ==
    {o \in [1..Cardinality(ZoneKeys(records)) -> ZoneKeys(records)] :
        \A i, j \in DOMAIN o : o[i] = o[j] => i = j}

\* the zone had a well-formed entry in the registry file when the run started
RegisteredAtStart(z) == RegistryHit(RegistryAfterLoad(startFile), z)

\* C40: the outcome of a run does not depend on the order in which its
\* zones are iterated.  A run whose read and parse steps succeeded has
\* executed, when it returns, the steps of its zones one zone after the
\* other in some order: for every zone one provisioning and, unless that
\* failed, one mint per domain of the zone in log order, each for its own
\* record.  And the steps have the arguments they have in every other
\* order: a zone that was registered when the run started, and so is given
\* its registered collection when it is iterated first, is given that
\* collection wherever it comes in the order.
C40_OrderDoesNotMatter ==
    /\ (wf = "returned" /\ returned[run] \notin {"pending", "readErr", "parseErr"}) =>
          \E o \in ZoneOrders :
              StepArgs = <<<<"read", "", 0>>, <<"parse", "", 0>>>> \o StepsForOrder(o)
    /\ MintInThisRun => lastMint.info = RecordOf(LastMintStep)
    /\ \A z \in Zones :
          (RegisteredAtStart(z) /\ provisioned[z] # NoHandle) =>
              provisioned[z] = startFile.collections[z]

====
